---- MODULE Spec2Model ----
(***************************************************************************)
(* Turn Resolution Engine of the restaurant receptionist                   *)
(* (src/backend/call_flow.py, src/backend/intents.py).                     *)
(*                                                                         *)
(* Texts are TLA+ strings handled character by character, the way the      *)
(* Python code handles them (substring tests, str.replace, str.split and   *)
(* the regular expressions of the source, each written out as a matcher).  *)
(* Prices are kept in cents: every price of the catalog is a multiple of   *)
(* 0.25, so the float arithmetic of the source is exact on them.           *)
(***************************************************************************)
EXTENDS Integers, Sequences, FiniteSets, TLC

(***************************************************************************)
(* Python string primitives                                                *)
(***************************************************************************)
UPPER == "ABCDEFGHIJKLMNOPQRSTUVWXYZ"
LOWER == "abcdefghijklmnopqrstuvwxyz"
DIGITS == "0123456789"

At(s, i) == SubSeq(s, i, i)

CharSet(s) == {At(s, i) : i \in 1..Len(s)}

UpperSet == CharSet(UPPER)
LowerSet == CharSet(LOWER)
DigitSet == CharSet(DIGITS)

LowerOf == [c \in UpperSet |-> At(LOWER, CHOOSE i \in 1..26 : At(UPPER, i) = c)]

DigitVal == [c \in DigitSet |-> (CHOOSE i \in 1..10 : At(DIGITS, i) = c) - 1]

\* the characters Python's str.split() and the regex class \s treat as space
IsSpace(c) == c \in {" ", "\n", "\t"}
IsDigit(c) == c \in DigitSet
\* the regex class \w
IsWord(c) == c \in UpperSet \/ c \in LowerSet \/ c \in DigitSet \/ c = "_"

\* s.lower(), character by character (the text is halved to keep the
\* evaluation shallow)
RECURSIVE str_lower(_)
str_lower(s) ==
    IF s = "" THEN ""
    ELSE IF Len(s) = 1 THEN (IF s \in UpperSet THEN LowerOf[s] ELSE s)
    ELSE LET h == Len(s) \div 2
         IN str_lower(SubSeq(s, 1, h)) \o str_lower(SubSeq(s, h + 1, Len(s)))

\* needle in hay
str_in(needle, hay) ==
    \E i \in 1..(Len(hay) - Len(needle) + 1) : SubSeq(hay, i, i + Len(needle) - 1) = needle

\* any(k in hay for k in keys), keys a sequence of strings
any_in(keys, hay) == \E j \in 1..Len(keys) : str_in(keys[j], hay)

StartsAt(s, i, p) == i + Len(p) - 1 <= Len(s) /\ SubSeq(s, i, i + Len(p) - 1) = p

Min(S) == CHOOSE x \in S : \A y \in S : x <= y

\* a local name: body applied to the value of e, which is computed once
With(e, body(_)) == body(e)

\* s.replace(old, new): every non-overlapping occurrence, left to right
RECURSIVE str_replace(_, _, _)
str_replace(s, old, new) ==
    With({i \in 1..Len(s) : StartsAt(s, i, old)}, LAMBDA occ :
        IF old = "" \/ occ = {} THEN s
        ELSE With(Min(occ), LAMBDA at :
                SubSeq(s, 1, at - 1) \o new
                \o str_replace(SubSeq(s, at + Len(old), Len(s)), old, new)))

\* s.strip()
RECURSIVE str_lstrip(_)
str_lstrip(s) == IF s # "" /\ IsSpace(At(s, 1)) THEN str_lstrip(Tail(s)) ELSE s

RECURSIVE str_rstrip(_)
str_rstrip(s) ==
    IF s # "" /\ IsSpace(At(s, Len(s))) THEN str_rstrip(SubSeq(s, 1, Len(s) - 1)) ELSE s

str_strip(s) == str_rstrip(str_lstrip(s))

\* end (exclusive) of the run of characters of the class that starts at i
SpanEnd(s, i, cls) ==
    IF i > Len(s) THEN i
    ELSE CHOOSE k \in i..(Len(s) + 1) :
            /\ (k = Len(s) + 1 \/ At(s, k) \notin cls)
            /\ \A j \in i..(k - 1) : At(s, j) \in cls

SpaceSet == {" ", "\n", "\t"}
WordSet == UpperSet \cup LowerSet \cup DigitSet \cup {"_"}

\* s.split(): the maximal runs of non-space characters
WordStarts(s) ==
    {i \in 1..Len(s) : ~IsSpace(At(s, i)) /\ (i = 1 \/ IsSpace(At(s, i - 1)))}

WordEnds(s) ==
    {i \in 1..Len(s) : ~IsSpace(At(s, i)) /\ (i = Len(s) \/ IsSpace(At(s, i + 1)))}

\* the k-th smallest element of a set of numbers
Nth(S, k) == CHOOSE x \in S : Cardinality({y \in S : y < x}) = k - 1

\* len(s.split())
word_count(s) == Cardinality(WordStarts(s))

\* s.split()
str_split(s) ==
    [k \in 1..word_count(s) |-> SubSeq(s, Nth(WordStarts(s), k), Nth(WordEnds(s), k))]

\* set(s.split())
word_set(s) ==
    {SubSeq(s, a, Min({b \in WordEnds(s) : b >= a})) : a \in WordStarts(s)}

\* int(digits)
RECURSIVE str_int(_)
str_int(s) ==
    IF s = "" THEN 0
    ELSE str_int(SubSeq(s, 1, Len(s) - 1)) * 10 + DigitVal[At(s, Len(s))]

\* f"${x:0.2f}" of an amount held in cents
Money(cents) ==
    LET c == cents % 100
    IN "$" \o ToString(cents \div 100) \o "." \o (IF c < 10 THEN "0" ELSE "") \o ToString(c)

\* ", ".join(parts)
RECURSIVE str_join(_, _)
str_join(sep, parts) ==
    IF Len(parts) = 0 THEN ""
    ELSE IF Len(parts) = 1 THEN parts[1]
    ELSE parts[1] \o sep \o str_join(sep, Tail(parts))

(***************************************************************************)
(* Regular-expression helpers                                              *)
(***************************************************************************)
\* \b at the gap before position i (1..Len(s)+1)
WordBoundary(s, i) ==
    LET before == i > 1 /\ IsWord(At(s, i - 1))
        after == i <= Len(s) /\ IsWord(At(s, i))
    IN before # after

\* \b w \b matches at position i
WholeWordAt(s, i, w) ==
    StartsAt(s, i, w) /\ WordBoundary(s, i) /\ WordBoundary(s, i + Len(w))

\* re.search(r'\b' + w + r'\b', s)
word_search(w, s) == \E i \in 1..Len(s) : WholeWordAt(s, i, w)

\* re.sub(r'\b' + w + r'\b', new, s)
RECURSIVE SubWordFrom(_, _, _, _)
SubWordFrom(s, from, w, new) ==
    With({i \in from..Len(s) : WholeWordAt(s, i, w)}, LAMBDA occ :
        IF occ = {} THEN SubSeq(s, from, Len(s))
        ELSE With(Min(occ), LAMBDA at :
                SubSeq(s, from, at - 1) \o new \o SubWordFrom(s, at + Len(w), w, new)))

word_sub(w, new, s) == SubWordFrom(s, 1, w, new)

\* re.sub(r'\b(w1|w2|...)\b', '', s), words tried in the order given
RECURSIVE DropWordsFrom(_, _, _)
DropWordsFrom(s, from, words) ==
    With({i \in from..Len(s) : \E j \in 1..Len(words) : WholeWordAt(s, i, words[j])},
         LAMBDA occ :
        IF occ = {} THEN SubSeq(s, from, Len(s))
        ELSE With(Min(occ), LAMBDA at :
             With(Min({j \in 1..Len(words) : WholeWordAt(s, at, words[j])}), LAMBDA first :
                SubSeq(s, from, at - 1) \o DropWordsFrom(s, at + Len(words[first]), words))))

\* the positions where a maximal run of digits starts
DigitRunStarts(s) ==
    {i \in 1..Len(s) : IsDigit(At(s, i)) /\ (i = 1 \/ ~IsDigit(At(s, i - 1)))}

\* for wrong, right in replacements.items(): q = q.replace(wrong, right)
RECURSIVE ApplyReplacements(_, _, _)
ApplyReplacements(s, reps, k) ==
    IF k > Len(reps) THEN s
    ELSE ApplyReplacements(str_replace(s, reps[k][1], reps[k][2]), reps, k + 1)

(***************************************************************************)
(* Menu Catalog Index                                                      *)
(***************************************************************************)
\* Optional values: None is the empty sequence, a value v is <<v>>; an optional
\* string that the source only tests for truth is "" when it is None or empty
\* the catalog file business_data.json: the items and prices the source
\* itself names (call_flow.py lines 1528-1529, 396, 1015-1020)
BUSINESS_DATA ==
    [menu_sections |-> <<
        [name |-> "Wraps & Sandwiches",
         items |-> << [name |-> "Chicken Shawarma Wrap", price |-> 1550],
                      [name |-> "Beef Shawarma Wrap", price |-> 1600] >>],
        [name |-> "Mezze",
         items |-> << [name |-> "Baba Ghanoush", price |-> 1000] >>],
        [name |-> "Drinks",
         items |-> << [name |-> "Soft Drinks", price |-> 350] >>] >>,
     address |-> [street |-> "1840 Cedar Grove Ave", city |-> "Fullerton",
                  state |-> "CA", zip |-> "92831"],
     \* keys this business file leaves out, with the defaults the code reads:
     \* hours holds the sorted "Day: value" parts, popular the items flagged
     \* popular, parking and landmarks the location_info texts
     hours |-> <<>>, halal_meat |-> FALSE, faq |-> <<>>, parking |-> "",
     landmarks |-> "", delivery_partners |-> <<>>, popular |-> <<>>,
     phone |-> "(714) 555-8734"]

\* BUSINESS_DATA = {} after a failed load: every key reads as its default
EMPTY_BUSINESS_DATA ==
    [menu_sections |-> <<>>,
     address |-> [street |-> "", city |-> "", state |-> "", zip |-> ""],
     hours |-> <<>>, halal_meat |-> FALSE, faq |-> <<>>, parking |-> "",
     landmarks |-> "", delivery_partners |-> <<>>, popular |-> <<>>,
     phone |-> "(714) 555-8734"]

\* A price of the catalog file is a number, held in cents, or it is not one:
\* the text "market price" stands for every such value and is held as -1.
MARKET_PRICE == 0 - 1

\* isinstance(price, (int, float)); for a line's total_price, whether float()
\* accepts it
IsNumber(price) == price >= 0

\* f"${price:.2f}" when the price is a number, str(price) otherwise
PriceText(price) == IF IsNumber(price) THEN Money(price) ELSE "market price"

\* the catalog with a special whose price is not a number
MARKET_DATA ==
    [BUSINESS_DATA EXCEPT !.menu_sections =
        @ \o << [name |-> "Specials",
                 items |-> << [name |-> "Lamb Chops", price |-> MARKET_PRICE] >>] >>]

RECURSIVE Flatten(_)
Flatten(sections) ==
    IF Len(sections) = 0 THEN <<>>
    ELSE sections[1].items \o Flatten(Tail(sections))

\* index[name.lower()] = item: a later item of the same lowercase name
\* replaces the value and keeps the position of the first
RECURSIVE IndexInsert(_, _)
IndexInsert(index, items) ==
    IF Len(items) = 0 THEN index
    ELSE LET it == items[1]
             key == str_lower(it.name)
             entry == [key |-> key, name |-> it.name, price |-> it.price]
             next == IF it.name = "" THEN index
                     ELSE IF \E i \in 1..Len(index) : index[i].key = key
                          THEN [i \in 1..Len(index) |->
                                   IF index[i].key = key THEN entry ELSE index[i]]
                          ELSE Append(index, entry)
         IN IndexInsert(next, Tail(items))

_build_menu_index(data) == IndexInsert(<<>>, Flatten(data.menu_sections))

MENU_INDEX == _build_menu_index(BUSINESS_DATA)

MARKET_INDEX == _build_menu_index(MARKET_DATA)

\* MENU_INDEX.get(key)
MenuGet(index, key) ==
    IF \E i \in 1..Len(index) : index[i].key = key
    THEN <<index[CHOOSE i \in 1..Len(index) : index[i].key = key]>>
    ELSE <<>>

OrderLine(name, quantity, unit_price) ==
    [name |-> name, quantity |-> quantity, unit_price |-> unit_price,
     total_price |-> unit_price * quantity]

\* the first index of the highest score, 0 when no score is positive:
\* the loops keep a candidate only when score > best_score
BestIndex(scores) ==
    IF \A i \in 1..Len(scores) : scores[i] <= 0 THEN 0
    ELSE CHOOSE i \in 1..Len(scores) :
            /\ \A j \in 1..Len(scores) : scores[j] <= scores[i]
            /\ \A j \in 1..(i - 1) : scores[j] < scores[i]

(***************************************************************************)
(* Order Line Extractor: single item                                       *)
(***************************************************************************)
ASR_REPLACEMENTS_SINGLE ==
    << <<"shore my", "shawarma">>, <<"shorma", "shawarma">>, <<"shwarma", "shawarma">>,
       <<"sandwhich", "sandwich">>, <<"sandwhiches", "sandwiches">>,
       <<"sandwhichs", "sandwiches">>, <<"fattouch", "fattoush">>,
       <<"fatoush", "fattoush">> >>

NUMBER_WORDS ==
    << <<"one", 1>>, <<"two", 2>>, <<"three", 3>>, <<"four", 4>>, <<"five", 5>>,
       <<"six", 6>>, <<"seven", 7>>, <<"eight", 8>>, <<"nine", 9>>, <<"ten", 10>> >>

\* re.search(r"(?:^|\s)(\d+)(?:\s+)", q): the first run of digits that starts
\* the text or follows a space, and is followed by a space
LeadingQuantityRuns(q) ==
    {i \in DigitRunStarts(q) :
        /\ (i = 1 \/ IsSpace(At(q, i - 1)))
        /\ With(SpanEnd(q, i, DigitSet), LAMBDA e : e <= Len(q) /\ IsSpace(At(q, e)))}

SingleQuantity(q) ==
    IF LeadingQuantityRuns(q) # {}
    THEN With(Min(LeadingQuantityRuns(q)), LAMBDA i :
            str_int(SubSeq(q, i, SpanEnd(q, i, DigitSet) - 1)))
    ELSE IF \E k \in 1..Len(NUMBER_WORDS) : word_search(NUMBER_WORDS[k][1], q)
         THEN NUMBER_WORDS[Min({k \in 1..Len(NUMBER_WORDS) :
                                   word_search(NUMBER_WORDS[k][1], q)})][2]
         ELSE 1

\* lname.replace("wrap", "").replace("sandwich", "").strip()
Core(lname) == str_strip(str_replace(str_replace(lname, "wrap", ""), "sandwich", ""))

\* the score one menu name gets: the length of its core when the text
\* contains it; the first pass skips names that are no wrap or sandwich when
\* the text asks for one
CoreScore(lname, q, prefers_wrap) ==
    With(Core(lname), LAMBDA core :
        IF core = "" THEN 0
        ELSE IF prefers_wrap /\ ~str_in("wrap", lname) /\ ~str_in("sandwich", lname) THEN 0
        ELSE IF str_in(core, q) THEN Len(core) ELSE 0)

_parse_quantity_and_item(index, text) ==
    With(ApplyReplacements(str_lower(text), ASR_REPLACEMENTS_SINGLE, 1), LAMBDA q :
    With(str_in("wrap", q) \/ str_in("sandwich", q), LAMBDA prefers_wrap :
    With(BestIndex([i \in 1..Len(index) |->
                      CoreScore(str_lower(index[i].key), q, prefers_wrap)]), LAMBDA first :
    With(IF first # 0 THEN first
         ELSE BestIndex([i \in 1..Len(index) |->
                           CoreScore(str_lower(index[i].key), q, FALSE)]), LAMBDA matched :
        IF matched = 0 THEN <<>>
        ELSE <<OrderLine(index[matched].name, SingleQuantity(q), index[matched].price)>>))))

(***************************************************************************)
(* Order Line Extractor: several items                                     *)
(***************************************************************************)
ASR_REPLACEMENTS_MULTI ==
    << <<"shore my", "shawarma">>, <<"shorma", "shawarma">>, <<"shwarma", "shawarma">>,
       <<"sandwhich", "sandwich">>, <<"sandwhiches", "sandwiches">>,
       <<"sandwhichs", "sandwiches">> >>

item_aliases ==
    << <<"coke", "soft drinks">>, <<"cokes", "soft drinks">>,
       <<"coca cola", "soft drinks">>, <<"soda", "soft drinks">>,
       <<"sodas", "soft drinks">>, <<"soft drink", "soft drinks">>,
       <<"soft drinks", "soft drinks">>, <<"fries", "french fries">>,
       <<"french fries", "french fries">>, <<"side of fries", "french fries">>,
       <<"sides of fries", "french fries">>, <<"fattouch", "fattoush">>,
       <<"fatoush", "fattoush">>, <<"fattouch salad", "fattoush">>,
       <<"fatoush salad", "fattoush">>, <<"laban-up", "laban">>,
       <<"laban up", "laban">>, <<"labneh", "labneh">>, <<"labne", "labneh">>,
       <<"shawarma", "chicken shawarma wrap">>,
       <<"shawarmas", "chicken shawarma wrap">>,
       <<"beef shawarma", "beef shawarma wrap">>,
       <<"beef shawarmas", "beef shawarma wrap">>,
       <<"chicken shawarma", "chicken shawarma wrap">>,
       <<"chicken shawarmas", "chicken shawarma wrap">>,
       <<"shawarma sandwich", "chicken shawarma wrap">>,
       <<"chicken shawarma sandwich", "chicken shawarma wrap">>,
       <<"beef shawarma sandwich", "beef shawarma wrap">>,
       <<"lamb skewer", "beef kabob plate">>,
       <<"shish taouk", "chicken kabob plate">>,
       <<"shish taouk plate", "chicken kabob plate">>,
       <<"house burger", "kafta wrap">>,
       <<"vegetarian platter", "mezze party tray">>,
       <<"za'atar manakish", "manakish">>, <<"zaatar manakish", "manakish">>,
       <<"kibbeh nayyeh", "fried kibbeh">>, <<"mint lemonade", "lemonade">>,
       <<"turkish coffee", "lebanese coffee">> >>

\* extras that are not on the menu: key, name, price
extra_items ==
    << <<"french fries", "French Fries", 500>>, <<"fries", "French Fries", 500>> >>

SOFT_DRINKS_DEFAULT_PRICE == 350

COMPLEX_ITEM_TYPES == <<"shawarma", "wrap", "sandwich", "sandwiches">>

\* (\d+)\s+(\w+)\s+and\s+(\d+)\s+(\w+)\s+(shawarma|wrap|sandwich|sandwiches)
\* tried at position i: <<>> or one record with the groups and the end
ComplexMatchAt(q, i) ==
    With(SpanEnd(q, i, DigitSet), LAMBDA d1 :
    With(SpanEnd(q, d1, SpaceSet), LAMBDA s1 :
    With(SpanEnd(q, s1, WordSet), LAMBDA w1 :
    With(SpanEnd(q, w1, SpaceSet), LAMBDA s2 :
    With(SpanEnd(q, s2 + 3, SpaceSet), LAMBDA s3 :
    With(SpanEnd(q, s3, DigitSet), LAMBDA d2 :
    With(SpanEnd(q, d2, SpaceSet), LAMBDA s4 :
    With(SpanEnd(q, s4, WordSet), LAMBDA w2 :
    With(SpanEnd(q, w2, SpaceSet), LAMBDA s5 :
    With({k \in 1..Len(COMPLEX_ITEM_TYPES) : StartsAt(q, s5, COMPLEX_ITEM_TYPES[k])},
         LAMBDA types :
        IF /\ d1 > i /\ s1 > d1 /\ w1 > s1 /\ s2 > w1
           /\ StartsAt(q, s2, "and")
           /\ s3 > s2 + 3 /\ d2 > s3 /\ s4 > d2 /\ w2 > s4 /\ s5 > w2
           /\ types # {}
        THEN With(COMPLEX_ITEM_TYPES[Min(types)], LAMBDA item_type :
                << [start |-> i, end |-> s5 + Len(item_type),
                    qty1 |-> str_int(SubSeq(q, i, d1 - 1)), type1 |-> SubSeq(q, s1, w1 - 1),
                    qty2 |-> str_int(SubSeq(q, s3, d2 - 1)), type2 |-> SubSeq(q, s4, w2 - 1),
                    item_type |-> item_type] >>)
        ELSE <<>>))))))))))

\* re.finditer(complex_pattern, q)
RECURSIVE ComplexMatches(_, _)
ComplexMatches(q, from) ==
    With({i \in from..Len(q) : Len(ComplexMatchAt(q, i)) = 1}, LAMBDA occ :
        IF occ = {} THEN <<>>
        ELSE With(ComplexMatchAt(q, Min(occ)), LAMBDA m : m \o ComplexMatches(q, m[1].end)))

\* the lines one complex match yields: for every menu item, the type1 line
\* and then the type2 line
RECURSIVE ComplexItems(_, _, _)
ComplexItems(index, k, m) ==
    IF k > Len(index) THEN <<>>
    ELSE With(str_lower(index[k].key), LAMBDA lname :
            (IF str_in(m.type1, lname) /\ str_in(m.item_type, lname)
             THEN <<OrderLine(index[k].name, m.qty1, index[k].price)>> ELSE <<>>)
            \o (IF str_in(m.type2, lname) /\ str_in(m.item_type, lname)
                THEN <<OrderLine(index[k].name, m.qty2, index[k].price)>> ELSE <<>>)
            \o ComplexItems(index, k + 1, m))

\* the loop over the complex matches: the lines found, and q with every
\* matched span removed (matches are spans of the text before the loop)
RECURSIVE ComplexPass(_, _, _, _, _)
ComplexPass(index, q0, matches, items, q) ==
    IF Len(matches) = 0 THEN [items |-> items, q |-> q]
    ELSE ComplexPass(index, q0, Tail(matches),
                     items \o ComplexItems(index, 1, matches[1]),
                     str_replace(q, SubSeq(q0, matches[1].start, matches[1].end - 1), ""))

\* length of the separator ,\s* or \s+and\s+ at position i, 0 when none
SeparatorAt(q, i) ==
    IF At(q, i) = "," THEN SpanEnd(q, i + 1, SpaceSet) - i
    ELSE With(SpanEnd(q, i, SpaceSet), LAMBDA e1 :
         With(SpanEnd(q, e1 + 3, SpaceSet), LAMBDA e3 :
            IF e1 > i /\ StartsAt(q, e1, "and") /\ e3 > e1 + 3 THEN e3 - i ELSE 0))

\* re.split(r',\s*|\s+and\s+', q)
RECURSIVE SplitSegments(_, _)
SplitSegments(q, from) ==
    With({i \in from..Len(q) : SeparatorAt(q, i) > 0}, LAMBDA occ :
        IF occ = {} THEN <<SubSeq(q, from, Len(q))>>
        ELSE With(Min(occ), LAMBDA at :
                <<SubSeq(q, from, at - 1)>> \o SplitSegments(q, at + SeparatorAt(q, at))))

\* re.search(r"(\d+)\s+(.+)", segment): the first run of digits followed by
\* a space and something more
SegmentQuantityRuns(segment) ==
    {i \in DigitRunStarts(segment) :
        With(SpanEnd(segment, i, DigitSet), LAMBDA e :
            e <= Len(segment) /\ IsSpace(At(segment, e))
            /\ SpanEnd(segment, e, SpaceSet) <= Len(segment))}

\* for alias, menu_name in item_aliases.items(): substitute whole words
RECURSIVE ApplyAliases(_, _, _)
ApplyAliases(desc, aliases, k) ==
    IF k > Len(aliases) THEN desc
    ELSE IF word_search(aliases[k][1], desc)
         THEN ApplyAliases(word_sub(aliases[k][1], aliases[k][2], desc), aliases, k + 1)
         ELSE ApplyAliases(desc, aliases, k + 1)

FILLER_WORDS == <<"plate", "sandwich", "sandwiches", "wrap", "wraps">>

DRINK_WORDS == <<"coke", "cokes", "soda", "sodas", "soft drink", "soft drinks">>

FRIES_WORDS == <<"fries", "french fries", "side of fries", "sides of fries">>

\* the bonus of a word that both the description and the menu name contain
InBoth(w, item_desc, lname, bonus) ==
    IF str_in(w, item_desc) /\ str_in(w, lname) THEN bonus ELSE 0

\* the score one menu name gets for a segment
SegmentScore(lname, item_desc, item_desc_clean) ==
    IF str_in(item_desc_clean, lname) \/ str_in(item_desc, lname) THEN 100
    ELSE IF str_in("beef shawarma", item_desc) /\ str_in("beef shawarma wrap", lname) THEN 100
    ELSE IF str_in("chicken shawarma", item_desc) /\ str_in("chicken shawarma wrap", lname)
         THEN 100
    ELSE With(Cardinality(word_set(item_desc) \cap word_set(lname)), LAMBDA common_words :
            IF common_words > 0
            THEN common_words * 2
                 + InBoth("hummus", item_desc, lname, 10)
                 + InBoth("fattoush", item_desc, lname, 10)
                 + InBoth("shawarma", item_desc, lname, 5)
                 + InBoth("beef", item_desc, lname, 3)
                 + InBoth("chicken", item_desc, lname, 3)
                 + InBoth("soft drinks", item_desc, lname, 10)
            ELSE 0)

\* the lines one segment yields (none or one)
SegmentItems(index, raw_segment) ==
    With(str_strip(raw_segment), LAMBDA segment :
    With(SegmentQuantityRuns(segment), LAMBDA runs :
    With(Min(runs), LAMBDA qs :
    With(SpanEnd(segment, qs, DigitSet), LAMBDA qe :
    With(str_int(SubSeq(segment, qs, qe - 1)), LAMBDA quantity :
    With(SubSeq(segment, SpanEnd(segment, qe, SpaceSet), Len(segment)), LAMBDA rest :
    With(ApplyAliases(str_lower(str_strip(rest)), item_aliases, 1), LAMBDA item_desc :
    With(str_strip(DropWordsFrom(item_desc, 1, FILLER_WORDS)), LAMBDA stripped :
    With(IF ~str_in("shawarma", item_desc) /\ ~str_in("wrap", item_desc) /\ stripped # ""
         THEN stripped ELSE item_desc, LAMBDA item_desc_clean :
    With(BestIndex([k \in 1..Len(index) |->
                      SegmentScore(str_lower(index[k].key), item_desc, item_desc_clean)]),
         LAMBDA matched :
    With(MenuGet(index, "soft drinks"), LAMBDA soft :
    With({k \in 1..Len(extra_items) :
             str_in(extra_items[k][1], item_desc)
             \/ str_in(extra_items[k][1], item_desc_clean)}, LAMBDA extras :
        IF segment = "" \/ runs = {} THEN <<>>
        ELSE IF StartsAt(segment, 1, "__processed") THEN <<>>
        ELSE IF matched # 0
             THEN <<OrderLine(index[matched].name, quantity, index[matched].price)>>
        ELSE IF any_in(DRINK_WORDS, item_desc)
             THEN IF Len(soft) = 1
                  THEN <<OrderLine(soft[1].name, quantity, soft[1].price)>>
                  ELSE <<OrderLine("Soft Drinks", quantity, SOFT_DRINKS_DEFAULT_PRICE)>>
        ELSE IF any_in(FRIES_WORDS, item_desc) /\ extras # {}
             THEN <<OrderLine(extra_items[Min(extras)][2], quantity,
                              extra_items[Min(extras)][3])>>
        ELSE <<>>))))))))))))

RECURSIVE SegmentsPass(_, _)
SegmentsPass(index, segments) ==
    IF Len(segments) = 0 THEN <<>>
    ELSE SegmentItems(index, segments[1]) \o SegmentsPass(index, Tail(segments))

_parse_multiple_items(index, text) ==
    With(ApplyReplacements(str_lower(text), ASR_REPLACEMENTS_MULTI, 1), LAMBDA q0 :
    With(ComplexPass(index, q0, ComplexMatches(q0, 1), <<>>, q0), LAMBDA cx :
    With(cx.items \o SegmentsPass(index, SplitSegments(cx.q, 1)), LAMBDA items :
        IF Len(items) = 0 THEN _parse_quantity_and_item(index, text) ELSE items)))

(***************************************************************************)
(* Conversation Ledger                                                     *)
(***************************************************************************)
RECURSIVE SumTotals(_)
SumTotals(order_items) ==
    IF Len(order_items) = 0 THEN 0
    ELSE order_items[1].total_price + SumTotals(Tail(order_items))

\* the f"{qty} {name}" parts of the order, in order
OrderParts(order_items) ==
    [i \in 1..Len(order_items) |->
        ToString(order_items[i].quantity) \o " " \o order_items[i].name]

NO_ORDER_MESSAGE == "I don't have an order on file yet for this call."

\* a rendering without the fixed message: an empty order renders as ""
SummaryOrBlank(order_items) ==
    IF Len(order_items) = 0 THEN ""
    ELSE "So far I have: " \o str_join(", ", OrderParts(order_items))
         \o ". The estimated total is " \o Money(SumTotals(order_items))
         \o " before tax and fees. "
         \o "Would you like to add anything else or is that everything?"

_summarize_order(order_items) ==
    IF Len(order_items) = 0 THEN NO_ORDER_MESSAGE
    ELSE "So far I have: " \o str_join(", ", OrderParts(order_items))
         \o ". The estimated total is " \o Money(SumTotals(order_items))
         \o " before tax and fees. "
         \o "Would you like to add anything else or is that everything?"

\* ConversationState.__init__: the fields the turn reads or writes
ConversationState ==
    [messages |-> <<>>, current_intent |-> "None", order_items |-> <<>>,
     kitchen_ticket |-> <<>>]

\* ConversationState.add_message (the timestamp is not kept)
add_message(messages, role, content) ==
    Append(messages, [role |-> role, content |-> content])

\* the content of the last assistant message, "" when there is none
LastAssistantMessage(messages) ==
    LET idx == {i \in 1..Len(messages) : messages[i].role = "assistant"}
    IN IF idx = {} THEN ""
       ELSE messages[CHOOSE i \in idx : \A j \in idx : j <= i].content

(***************************************************************************)
(* Turn Resolver, step 1: pending confirmation                             *)
(***************************************************************************)
confirmation_words ==
    <<"yes", "yeah", "yep", "sure", "ok", "okay", "add it", "add that",
      "yes please", "yes add">>

is_confirmation(text_lower) ==
    any_in(confirmation_words, text_lower) /\ word_count(text_lower) <= 3

LetterSpaceSet == UpperSet \cup LowerSet \cup SpaceSet

\* re.search(r'^([A-Z][a-zA-Z\s]+?)\s+' + word, msg): group 1, "" when
\* there is no match.  The group is the shortest prefix of letters and
\* spaces (two characters at least) followed by spaces and the word.
PrefixBefore(msg, word) ==
    LET run == IF msg # "" /\ At(msg, 1) \in UpperSet
               THEN SpanEnd(msg, 2, LetterSpaceSet) ELSE 1
        ends == {j \in 2..(run - 1) :
                    LET e == SpanEnd(msg, j + 1, SpaceSet)
                    IN e > j + 1 /\ StartsAt(msg, e, word)}
    IN IF ends = {} THEN "" ELSE SubSeq(msg, 1, Min(ends))

\* the end (exclusive) of (?:\s+[A-Z][a-z]+)* from position e
RECURSIVE CapWordsEnd(_, _)
CapWordsEnd(msg, e) ==
    LET s1 == SpanEnd(msg, e, SpaceSet)
        w1 == SpanEnd(msg, s1 + 1, LowerSet)
    IN IF s1 > e /\ s1 <= Len(msg) /\ At(msg, s1) \in UpperSet /\ w1 > s1 + 1
       THEN CapWordsEnd(msg, w1) ELSE e

\* re.search(r'^([A-Z][a-z]+(?:\s+[A-Z][a-z]+)*)', msg): group 1 or ""
CapitalizedPrefix(msg) ==
    LET w1 == SpanEnd(msg, 2, LowerSet)
    IN IF msg # "" /\ At(msg, 1) \in UpperSet /\ w1 > 2
       THEN SubSeq(msg, 1, CapWordsEnd(msg, w1) - 1) ELSE ""

\* a in b or b in a, both lowercased
EitherContains(a, b) ==
    str_in(str_lower(a), str_lower(b)) \/ str_in(str_lower(b), str_lower(a))

\* the item name the confirmation branch reads from the last assistant
\* message, "" when it finds none
OfferedItemName(index, last_assistant_msg) ==
    LET m1 == str_strip(PrefixBefore(last_assistant_msg, "costs"))
        m2 == str_strip(PrefixBefore(last_assistant_msg, "is"))
        m3 == str_strip(CapitalizedPrefix(last_assistant_msg))
    IN IF m1 # "" THEN m1
       ELSE IF m2 # "" THEN m2
       ELSE IF m3 # "" /\ \E k \in 1..Len(index) : EitherContains(m3, index[k].key) THEN m3
       ELSE ""

\* a search for the line of that name that skips the first line
ExistingLineAfterFirst(order_items, name) ==
    LET hit == {i \in 2..Len(order_items) : order_items[i].name = name}
    IN IF hit = {} THEN 0 ELSE Min(hit)

\* the first order line of that name, 0 when there is none
ExistingLine(order_items, name) ==
    LET hit == {i \in 1..Len(order_items) : order_items[i].name = name}
    IN IF hit = {} THEN 0 ELSE Min(hit)

\* a quantity update that leaves the stale total in place
SetQuantityOnly(order_items, i, quantity) ==
    [order_items EXCEPT ![i].quantity = quantity]

\* existing_item["quantity"] = quantity, then the total is recomputed
SetQuantity(order_items, i, quantity) ==
    [order_items EXCEPT ![i].quantity = quantity,
                        ![i].total_price = quantity * order_items[i].unit_price]

\* a merge that knows no correction: the parsed quantity is always added
AddedQuantity(existing_quantity, parsed_quantity, is_correction) ==
    existing_quantity + parsed_quantity

\* the quantity of an existing line after a parsed item of the same name
MergedQuantity(existing_quantity, parsed_quantity, is_correction) ==
    IF is_correction THEN parsed_quantity
    ELSE existing_quantity + parsed_quantity

\* add one unit of a menu item: +1 on its line, or a new line of quantity 1
AddOne(order_items, menu_item) ==
    LET existing == ExistingLine(order_items, menu_item.name)
    IN IF existing # 0
       THEN SetQuantity(order_items, existing, order_items[existing].quantity + 1)
       ELSE Append(order_items,
                   [name |-> menu_item.name, quantity |-> 1,
                    unit_price |-> menu_item.price, total_price |-> menu_item.price])

ANYTHING_ELSE == " Would you like to add anything else or is that everything?"

ADD_PROMPT == "I'd be happy to help you add items to your order. What would you like to add?"

(***************************************************************************)
(* answer_from_facts: answers from the business data, "" for None          *)
(***************************************************************************)
\* f"{name} - ${price:.2f}" for each item
ItemPriceParts(items) ==
    [i \in 1..Len(items) |-> items[i].name \o " - " \o PriceText(items[i].price)]

SectionNames(sections) == [i \in 1..Len(sections) |-> sections[i].name]

Take(seq, n) == SubSeq(seq, 1, IF Len(seq) < n THEN Len(seq) ELSE n)

\* the answer of the first FAQ entry whose joined tags contain a key
FaqAnswer(faq, keys) ==
    LET hit == {i \in 1..Len(faq) :
                   any_in(keys, str_lower(str_join(" ", faq[i].tags)))}
    IN IF hit = {} THEN "" ELSE faq[Min(hit)].answer

\* the first section whose lowercase name contains one of the keys
SectionWith(sections, keys) ==
    LET hit == {i \in 1..Len(sections) : any_in(keys, str_lower(sections[i].name))}
    IN IF hit = {} THEN <<>> ELSE <<sections[Min(hit)]>>

\* the first index entry whose key occurs in q
IndexEntryIn(index, q) ==
    LET hit == {i \in 1..Len(index) : str_in(index[i].key, q)}
    IN IF hit = {} THEN <<>> ELSE <<index[Min(hit)]>>

\* f"{prefix}${price:.2f}{suffix}" for a catalog key, the fallback otherwise
PriceLine(index, key, prefix, suffix, fallback) ==
    IF MenuGet(index, key) # <<>> /\ IsNumber(MenuGet(index, key)[1].price)
    THEN prefix \o Money(MenuGet(index, key)[1].price) \o suffix
    ELSE fallback

LocationText(data) ==
    "We're located at " \o data.address.street \o ", " \o data.address.city
    \o ", " \o data.address.state \o " " \o data.address.zip \o ". "

\* lines 174-304: hours, diet, parking, catering, menu, wraps, prices, location
facts_business(data, index, q) ==
    LET wraps == SectionWith(data.menu_sections, <<"wrap", "sandwich">>)
    IN
    IF any_in(<<"hour", "open", "close", "time">>, q) /\ data.hours # <<>>
    THEN "Our hours are: " \o str_join("; ", data.hours)
    ELSE IF str_in("halal", q) /\ data.halal_meat
    THEN "Yes, we serve halal meat at Cedar Garden Lebanese Kitchen. "
         \o "If you have any specific questions or allergies, we're happy to help."
    ELSE IF any_in(<<"vegetarian", "vegan">>, q)
            /\ FaqAnswer(data.faq, <<"vegetarian", "vegan">>) # ""
    THEN FaqAnswer(data.faq, <<"vegetarian", "vegan">>)
    ELSE IF str_in("gluten", q) /\ FaqAnswer(data.faq, <<"gluten_free">>) # ""
    THEN FaqAnswer(data.faq, <<"gluten_free">>)
    ELSE IF any_in(<<"parking", "park">>, q) /\ data.parking # ""
    THEN data.parking
    ELSE IF any_in(<<"cater", "catering", "party", "tray">>, q)
            /\ FaqAnswer(data.faq, <<"catering">>) # ""
    THEN FaqAnswer(data.faq, <<"catering">>)
    ELSE IF any_in(<<"popular", "best", "recommend", "favorite", "favourite",
                     "what's good">>, q) /\ data.popular # <<>>
    THEN "Our most popular items are: "
         \o str_join(", ", Take(ItemPriceParts(data.popular), 5)) \o ". "
         \o "Would you like to know more about any of these or place an order?"
    ELSE IF any_in(<<"what's on the menu", "what do you have", "what do you serve",
                     "menu", "what can i get">>, q)
    THEN "We have a variety of Lebanese dishes including: "
         \o str_join(", ", Take(SectionNames(data.menu_sections), 5)) \o ". "
         \o "Would you like to hear about specific items or place an order?"
    ELSE IF any_in(<<"sandwich", "sandwiches", "wrap", "wraps">>, q)
            /\ wraps # <<>> /\ wraps[1].items # <<>>
    THEN "Here are our wraps and sandwiches: "
         \o str_join(", ", ItemPriceParts(wraps[1].items)) \o ". "
         \o "Which would you like to order?"
    ELSE IF IndexEntryIn(index, q) # <<>>
    THEN IndexEntryIn(index, q)[1].name \o " costs "
         \o PriceText(IndexEntryIn(index, q)[1].price) \o ". "
         \o "" \o " Would you like to add this to your order?"
    ELSE IF ~any_in(<<"weather", "temperature", "news", "sports", "movie", "joke">>, q)
            /\ any_in(<<"where", "location", "address", "located">>, q)
    THEN LET location_text ==
                 LocationText(data)
                 \o "We're in Cedar Grove Plaza near the intersection of Chapman Ave and State College Blvd."
         IN IF any_in(<<"when", "ready", "time", "pickup", "how long">>, q)
            THEN location_text
                 \o " Your order will be ready for pickup in approximately 25-30 minutes."
            ELSE location_text
    ELSE ""

\* lines 306-366: main dish customization
facts_main_dish(q) ==
    IF any_in(<<"shawarma", "shawarmas">>, q)
       /\ any_in(<<"bread", "pita", "markouk", "wrap">>, q)
    THEN "Our shawarma comes on warm Lebanese pita bread. "
         \o "Would you like any additions like pickles, garlic sauce, or tahini?"
    ELSE IF any_in(<<"shawarma", "shawarmas">>, q)
            /\ any_in(<<"spicy", "extra spice">>, q)
    THEN "I can add extra spice to your shawarma. Would you like mild, medium, or extra spicy?"
    ELSE IF str_in("mixed grill", q)
    THEN IF any_in(<<"large", "extra">>, q)
         THEN "Our mixed grill comes with chicken kabob, beef kabob, and kafta skewers, "
              \o "served with rice, grilled vegetables, and garlic sauce. "
              \o "Would you like any extra skewers added?"
         ELSE "Our mixed grill includes chicken kabob, beef kabob, and kafta, "
              \o "served with rice, grilled vegetables, and garlic sauce. "
              \o "Would you like to order this?"
    ELSE IF str_in("kibbeh", q)
    THEN IF any_in(<<"spicy", "extra spice">>, q)
         THEN "I can make your kibbeh extra spicy. Would you like to add that to your order?"
         ELSE "Our kibbeh is a traditional Lebanese dish. Would you like the fried or raw version?"
    ELSE IF any_in(<<"kafta", "lamb kafta">>, q)
    THEN "Our kafta comes with your choice of two sides: rice, grilled vegetables, "
         \o "tabbouleh, or fattoush salad. Which would you like?"
    ELSE IF any_in(<<"vegetarian platter", "vegetarian plate">>, q)
    THEN "Our vegetarian platter includes hummus, baba ghanoush, tabbouleh, fattoush, "
         \o "and falafel. Which dip would you prefer as the main feature: hummus or baba ghanoush?"
    ELSE IF any_in(<<"garlic sauce", "toum", "extra garlic">>, q)
    THEN "I can add extra garlic sauce (toum) to your order for $1.00. Would you like that?"
    ELSE IF str_in("falafel", q) /\ any_in(<<"sandwich", "wrap", "4", "four">>, q)
    THEN "Our falafel is available as a wrap, in pita, or as a platter. "
         \o "Which would you prefer?"
    ELSE IF str_in("manakish", q) \/ (str_in("shawarma", q) /\ str_in("manakish", q))
    THEN "Shawarma is a meat wrap with marinated chicken or beef. "
         \o "Manakish is a flatbread with toppings like za'atar, cheese, or ground meat. "
         \o "Which would you like?"
    ELSE IF any_in(<<"whole fish", "roasted fish">>, q)
    THEN "We offer whole roasted fish. Please call ahead to check today's availability. "
         \o "Would you like to place an order?"
    ELSE ""

\* lines 368-423: appetizers, sides and mezze
facts_appetizers(index, q) ==
    IF any_in(<<"mezze", "sampler">>, q)
    THEN IF str_in("small", q)
         THEN "Our small mezze sampler includes hummus, baba ghanoush, tabbouleh, and grape leaves. "
              \o "Would you like the full size sampler instead? It includes more items."
         ELSE "Our mezze sampler includes hummus, baba ghanoush, tabbouleh, fattoush, "
              \o "grape leaves, and falafel. Would you like to order this?"
    ELSE IF str_in("hummus", q) /\ any_in(<<"price", "cost", "how much">>, q)
    THEN PriceLine(index, "hummus", "A standard order of hummus is ", ".",
                   "A standard order of hummus is $9.50.")
    ELSE IF any_in(<<"baba ghanoush", "baba ghanouj">>, q)
    THEN IF str_in("smoky", q)
         THEN "Yes, we roast the eggplant over an open flame for a distinct smoky flavor."
         ELSE PriceLine(index, "baba ghanoush", "Baba Ghanoush is ", ".",
                        "Baba Ghanoush is $10.00.")
    ELSE IF any_in(<<"grape leaves", "warak">>, q)
    THEN IF any_in(<<"two", "2">>, q)
         THEN "We have both meat-filled and vegetarian grape leaves. "
              \o "Which would you prefer?"
         ELSE "We offer grape leaves (warak enab) - would you like the vegetarian or meat-filled version?"
    ELSE IF str_in("dips", q) /\ any_in(<<"besides", "other", "what">>, q)
    THEN "We offer: Hummus, Baba Ghanoush, Labneh, Moutabbal. Which would you like?"
    ELSE IF str_in("pita", q) /\ any_in(<<"extra", "more">>, q)
    THEN "Yes, an extra basket of pita bread is $2.00. Would you like to add that?"
    ELSE IF str_in("fattoush", q) /\ any_in(<<"dressing", "what's in">>, q)
    THEN "Our fattoush dressing is made with sumac, olive oil, lemon juice, and mint."
    ELSE IF any_in(<<"kibbeh nayyeh", "raw kibbeh">>, q)
    THEN "Kibbeh Nayyeh is raw meat, best consumed immediately. "
         \o "We adhere to strict preparation standards. Would you like to order this?"
    ELSE IF str_in("pickles", q) /\ str_in("turnips", q)
    THEN "I can add pickles and turnips as a side. Would you like that?"
    ELSE ""

\* lines 425-480: desserts
facts_desserts(data, index, q) ==
    LET desserts == SectionWith(data.menu_sections, <<"dessert">>)
    IN
    IF str_in("knafeh", q)
    THEN PriceLine(index, "knafeh", "Yes, our Knafeh is made fresh daily and costs ", ".",
                   "Yes, our Knafeh is made fresh daily and costs $9.50.")
    ELSE IF str_in("dessert", q) /\ any_in(<<"options", "what">>, q)
    THEN IF desserts # <<>> /\ desserts[1].items # <<>>
         THEN "We offer: " \o str_join(", ", SectionNames(desserts[1].items))
              \o ". Which would you like?"
         ELSE "We offer Baklava, Knafeh, and Rice Pudding. Which would you like?"
    ELSE IF any_in(<<"turkish coffee", "lebanese coffee">>, q)
    THEN IF str_in("strong", q)
         THEN "Our Lebanese coffee is traditionally strong, made with finely ground beans and cardamom."
         ELSE "Would you like your Turkish coffee plain, medium sweet, or very sweet? "
              \o "We also add cardamom for traditional flavor."
    ELSE IF str_in("baklava", q)
    THEN IF str_in("sampler", q)
         THEN "Our baklava sampler includes walnut, pistachio, and mixed varieties for $10.00. "
              \o "Would you like to order this?"
         ELSE IF any_in(<<"4", "four", "pieces">>, q)
         THEN "Which baklava varieties would you like: Walnut, Pistachio, or Mixed?"
         ELSE PriceLine(index, "baklava", "Baklava is ", " per piece.",
                        "Baklava is $8.50 per piece.")
    ELSE IF str_in("mint tea", q)
    THEN "Would you prefer fresh mint tea or a teabag? We recommend fresh mint for the best flavor."
    ELSE IF any_in(<<"mohallabieh", "muhallabieh">>, q)
    THEN IF any_in(<<"dairy", "dairy-free">>, q)
         THEN "No, Mohallabieh is a milk pudding, so it contains dairy."
         ELSE "Mohallabieh is a traditional milk pudding. Would you like to order it?"
    ELSE IF str_in("ice cream", q)
    THEN "Yes, we offer rosewater and pistachio ice cream. Which would you like?"
    ELSE ""

\* lines 482-510: drinks
facts_drinks(index, q) ==
    IF any_in(<<"fresh juice", "juice">>, q)
    THEN "Our fresh juices today include: Mint Lemonade, Carrot Juice, and Orange Juice. "
         \o "Which would you like?"
    ELSE IF str_in("lemonade", q)
    THEN IF str_in("pitcher", q)
         THEN "Would you like the lemonade plain or with rosewater or mint added?"
         ELSE PriceLine(index, "mint lemonade", "Mint Lemonade is ", ".",
                        "Mint Lemonade is $5.50.")
    ELSE IF any_in(<<"coke", "coca cola">>, q)
    THEN IF any_in(<<"how much", "price", "cost">>, q)
         THEN PriceLine(index, "soft drinks", "A can of Coke is ", ".",
                        "A can of Coke is $3.50.")
         ELSE "Yes, we have Coke and other soft drinks. Would you like to add one to your order?"
    ELSE ""

\* lines 512-562: delivery, catering, events, pickup
facts_delivery(data, q) ==
    IF any_in(<<"cater", "catering">>, q)
    THEN IF any_in(<<"events", "event">>, q)
         THEN "Yes, we offer catering for events up to 100 people. "
              \o "Our catering menu includes mezze trays, mixed grill trays, and family meals. "
              \o "Would you like more details?"
         ELSE "Yes, we offer catering. For large orders, we typically need 24-48 hours notice."
    ELSE IF str_in("delivery", q) /\ any_in(<<"how long", "when", "time">>, q)
    THEN "Your estimated delivery time is 30-40 minutes."
    ELSE IF str_in("delivery", q) /\ str_in("minimum", q)
    THEN "The minimum order for delivery is $20.00."
    ELSE IF str_in("delivery", q) /\ any_in(<<"third-party", "doordash", "uber">>, q)
    THEN IF data.delivery_partners # <<>>
         THEN "Yes, we use " \o str_join(", ", data.delivery_partners) \o " for delivery."
         ELSE "We use our own drivers for local delivery within 5 miles."
    ELSE IF str_in("delivery", q) /\ any_in(<<"packaged", "packaging">>, q)
    THEN "All hot items are sealed in insulated containers for delivery."
    ELSE IF str_in("banquet", q) \/ (str_in("12", q) /\ str_in("people", q))
    THEN "Our standard banquet menu for 12 people is $35 per person. "
         \o "It includes a variety of mezze, mixed grill, rice, salads, and dessert. "
         \o "Would you like to book this?"
    ELSE IF str_in("pickup", q) /\ any_in(<<"tomorrow", "6", "6 pm">>, q)
    THEN "I can schedule your order for pickup tomorrow at 6 PM. "
         \o "What would you like to order?"
    ELSE IF any_in(<<"family meal", "family feast">>, q)
    THEN "Yes, our Family Feast serves 4-5 people and includes: "
         \o "mixed grill, rice, hummus, baba ghanoush, tabbouleh, fattoush, and pita bread. "
         \o "Would you like to order this?"
    ELSE IF str_in("cancel", q) /\ str_in("order", q)
    THEN "I can help you cancel your order. Please provide your order number or phone number. "
         \o "Are you sure you'd like to cancel?"
    ELSE IF str_in("pick up", q) /\ any_in(<<"where", "pickup">>, q)
    THEN "Pickup is at the front counter labeled 'Online Orders'. Just let us know your name when you arrive."
    ELSE ""

\* the first rule group that answers, in the order of the source
FirstAnswer(answers) ==
    LET hit == {i \in 1..Len(answers) : answers[i] # ""}
    IN IF hit = {} THEN "" ELSE answers[Min(hit)]

answer_from_facts(data, index, text) ==
    LET q == str_lower(text)
    IN IF data = EMPTY_BUSINESS_DATA THEN ""
       ELSE FirstAnswer(<<facts_business(data, index, q), facts_main_dish(q),
                          facts_appetizers(index, q), facts_desserts(data, index, q),
                          facts_drinks(index, q), facts_delivery(data, q)>>)

(***************************************************************************)
(* answer_from_intent: intent templates, "" for None                       *)
(***************************************************************************)
answer_from_intent(data, index, text, intent) ==
    LET q == str_lower(text)
        mezze == SectionWith(data.menu_sections, <<"mezze">>)
    IN
    IF data = EMPTY_BUSINESS_DATA THEN ""
    ELSE IF intent = "menu"
    THEN IF any_in(<<"mezze", "appetizer", "starter">>, q)
            /\ mezze # <<>> /\ mezze[1].items # <<>>
         THEN "Our mezze options include: "
              \o str_join(", ", ItemPriceParts(Take(mezze[1].items, 3)))
              \o ". Would you like to order any?"
         ELSE IF data.popular # <<>>
         THEN "Here are some of our popular items: "
              \o str_join(", ", Take(ItemPriceParts(data.popular), 5)) \o ". "
              \o "What would you like to order?"
         ELSE "We offer: " \o str_join(", ", Take(SectionNames(data.menu_sections), 4))
              \o ". What interests you?"
    ELSE IF intent = "pricing"
    THEN IF IndexEntryIn(index, q) # <<>>
         THEN IndexEntryIn(index, q)[1].name \o " is "
              \o PriceText(IndexEntryIn(index, q)[1].price)
              \o ". Would you like to add it to your order?"
         ELSE "Our prices range from $9.50 for mezze items to $28 for entrees. "
              \o "Wraps and sandwiches are around $14-$16. Would you like to know the price of a specific item?"
    ELSE IF intent = "hours"
    THEN IF data.hours # <<>>
         THEN "Our hours are: " \o str_join("; ", data.hours)
         ELSE ""
    ELSE IF intent = "direction"
    THEN IF any_in(<<"weather", "temperature", "news", "sports", "movie", "joke",
                     "forecast">>, q)
         THEN ""
         ELSE IF word_count(q) <= 3
                 /\ ~any_in(<<"where", "location", "address", "directions", "find", "map">>, q)
         THEN ""
         ELSE LocationText(data) \o data.landmarks \o " Would you like directions?"
    ELSE IF intent = "reservation"
    THEN "Yes, we take reservations! You can call us at " \o data.phone \o ". "
         \o "We accept reservations for parties of 1 to 10 guests. "
         \o "For larger parties, please call ahead. Would you like to make a reservation?"
    ELSE ""

(***************************************************************************)
(* Intent classification (intents.py)                                      *)
(***************************************************************************)
Intent ==
    {"greeting", "hours", "menu", "pricing", "reservation", "direction",
     "general_question", "goodbye", "unknown"}

\* INTENT_KEYWORDS in the order of the dictionary
INTENT_KEYWORDS ==
    << <<"greeting", <<"hello", "hi", "hey", "good morning", "good afternoon", "good evening">> >>,
       <<"hours", <<"hours", "open", "closed", "when", "time", "available", "operating">> >>,
       <<"menu", <<"menu", "food", "dish", "drink", "special", "item", "serve", "offer">> >>,
       <<"pricing", <<"price", "cost", "how much", "expensive", "cheap", "dollar", "$">> >>,
       <<"reservation", <<"reservation", "reserve", "table", "book", "appointment", "availability">> >>,
       <<"direction", <<"location", "address", "where", "directions", "find", "map">> >>,
       <<"goodbye", <<"bye", "goodbye", "thanks", "thank you", "see you", "later">> >> >>

\* keyword rules under which a later intent of the table wins
classify_intent_rule_last(text) ==
    LET text_lower == str_lower(text)
        hit == {i \in 1..Len(INTENT_KEYWORDS) : any_in(INTENT_KEYWORDS[i][2], text_lower)}
    IN IF hit = {} THEN "general_question"
       ELSE INTENT_KEYWORDS[CHOOSE i \in hit : \A j \in hit : j <= i][1]

classify_intent_rule_based(text) ==
    LET text_lower == str_lower(text)
        hit == {i \in 1..Len(INTENT_KEYWORDS) : any_in(INTENT_KEYWORDS[i][2], text_lower)}
    IN IF hit = {} THEN "general_question" ELSE INTENT_KEYWORDS[Min(hit)][1]

\* what the language model call does: it raises, or it answers with a string
\* that Intent() accepts or rejects
LLM_OUTCOMES == Intent \cup {"error", "not_an_intent"}

classify_intent_llm(llm) ==
    IF llm \in Intent THEN llm ELSE "unknown"

\* what the trained classifier does: the loader returns None, the loader
\* raises, predict raises, or predict returns an intent
ML_OUTCOMES == Intent \cup {"none", "load_error", "predict_error"}

\* what the keyword rules do: they return their intent, or they raise (text
\* is not a string)
RULE_OUTCOMES == {"returns", "raises"}

\* the intent of the rule tier, "error" when it raised
RuleTier(text, rule) ==
    IF rule = "raises" THEN "error" ELSE classify_intent_rule_based(text)

\* the result of a call: the intent, the tier that produced it, whether the
\* rules were consulted, the number of language model calls, and whether an
\* exception left the call
Classified(intent, tier, rule_consulted, llm_calls) ==
    [intent |-> intent, tier |-> tier, rule_consulted |-> rule_consulted,
     llm_calls |-> llm_calls, raised |-> FALSE]

\* a fallback that trusts the keyword rules before the trained classifier
classify_intent_rules_first(ml, rule_intent, llm) ==
    IF rule_intent \notin {"general_question", "error"}
    THEN Classified(rule_intent, "rule", TRUE, 0)
    ELSE IF ml \in Intent
    THEN Classified(ml, "ml", TRUE, 0)
    ELSE Classified(classify_intent_llm(llm), "llm", TRUE, 1)

\* a fallback without exception handlers: the failure of a tier leaves the call
classify_intent_unguarded(ml, rule_intent, llm) ==
    IF ml \in Intent THEN Classified(ml, "ml", FALSE, 0)
    ELSE IF ml \in {"load_error", "predict_error"}
    THEN [Classified("None", "ml", FALSE, 0) EXCEPT !.raised = TRUE]
    ELSE IF rule_intent = "error"
    THEN [Classified("None", "rule", TRUE, 0) EXCEPT !.raised = TRUE]
    ELSE IF rule_intent # "general_question"
    THEN Classified(rule_intent, "rule", TRUE, 0)
    ELSE IF llm \in Intent THEN Classified(llm, "llm", TRUE, 1)
    ELSE [Classified("None", "llm", TRUE, 1) EXCEPT !.raised = TRUE]

\* classify_intent(text, method="auto"): each tier runs inside a handler that
\* catches its exceptions, so a tier that fails hands over to the next
classify_intent_auto(ml, rule_intent, llm) ==
    IF ml \in Intent
    THEN Classified(ml, "ml", FALSE, 0)
    ELSE IF rule_intent \notin {"general_question", "error"}
    THEN Classified(rule_intent, "rule", TRUE, 0)
    ELSE Classified(classify_intent_llm(llm), "llm", TRUE, 1)

classify_intent(text, ml, rule, llm) ==
    classify_intent_auto(ml, RuleTier(text, rule), llm)

(***************************************************************************)
(* Turn Resolver, step 2: quantity-correction shorthand                    *)
(***************************************************************************)
\* r"no\s+(\d+)\s+([^,]+?)(?:\s+not\s+(\d+))?" from position i: the lazy
\* group takes exactly one character, the one after the spaces that follow
\* the number, or the last of those spaces when a comma or the end follows
CorrectionNoAt(s, i) ==
    LET d == SpanEnd(s, i + 2, SpaceSet)
        e == SpanEnd(s, d, DigitSet)
        f == SpanEnd(s, e, SpaceSet)
    IN IF StartsAt(s, i, "no") /\ d > i + 2 /\ e > d /\ f > e
       THEN IF f <= Len(s) /\ At(s, f) # ","
            THEN <<[qty |-> str_int(SubSeq(s, d, e - 1)), desc |-> At(s, f)]>>
            ELSE IF f - e >= 2
            THEN <<[qty |-> str_int(SubSeq(s, d, e - 1)), desc |-> " "]>>
            ELSE <<>>
       ELSE <<>>

\* \s+not\s+(\d+) matches at position p
NotTail(s, p) ==
    LET a == SpanEnd(s, p, SpaceSet)
        b == SpanEnd(s, a + 3, SpaceSet)
    IN a > p /\ StartsAt(s, a, "not") /\ b > a + 3 /\ b <= Len(s) /\ IsDigit(At(s, b))

\* r"(\d+)\s+([^,]+?)\s+not\s+(\d+)" from the digit run that starts at i:
\* the lazy group ends at the first place followed by " not <digit>"
CorrectionNotAt(s, i) ==
    LET e == SpanEnd(s, i, DigitSet)
        f == SpanEnd(s, e, SpaceSet)
        ends == {h \in f..Len(s) :
                    (\A j \in f..h : At(s, j) # ",") /\ NotTail(s, h + 1)}
    IN IF f > e /\ ends # {}
       THEN <<[qty |-> str_int(SubSeq(s, i, e - 1)), desc |-> SubSeq(s, f, Min(ends))]>>
       ELSE IF f - e >= 3 /\ NotTail(s, f - 1)
       THEN <<[qty |-> str_int(SubSeq(s, i, e - 1)), desc |-> " "]>>
       ELSE <<>>

\* the first pattern that matches, at its leftmost match
correction_match(text_lower) ==
    LET no_at == {i \in 1..Len(text_lower) : CorrectionNoAt(text_lower, i) # <<>>}
        not_at == {i \in DigitRunStarts(text_lower) : CorrectionNotAt(text_lower, i) # <<>>}
    IN IF no_at # {} THEN CorrectionNoAt(text_lower, Min(no_at))
       ELSE IF not_at # {} THEN CorrectionNotAt(text_lower, Min(not_at))
       ELSE <<>>

item_aliases_local ==
    << <<"coke", "soft drinks">>, <<"cokes", "soft drinks">>, <<"soda", "soft drinks">>,
       <<"soft drink", "soft drinks">>, <<"soft drinks", "soft drinks">>,
       <<"fries", "french fries">>, <<"french fries", "french fries">>,
       <<"side of fries", "french fries">>, <<"sides of fries", "french fries">> >>

\* the order line the shorthand corrects: the first whose name contains the
\* description, is contained in it, or shares a word with it; 0 when none
CorrectedLine(order_items, item_desc) ==
    LET desc == str_lower(item_desc)
        hit == {i \in 1..Len(order_items) :
                   LET item_name_lower == str_lower(order_items[i].name)
                   IN \/ str_in(desc, item_name_lower)
                      \/ str_in(item_name_lower, desc)
                      \/ word_set(desc) \cap word_set(item_name_lower) # {}}
    IN IF hit = {} THEN 0 ELSE Min(hit)

(***************************************************************************)
(* Follow-up questions                                                     *)
(***************************************************************************)
_get_order_followup_question(item_name, order_items) ==
    LET item_lower == str_lower(item_name)
        has(k) == str_in(k, item_lower)
    IN
    IF has("shawarma") \/ (has("chicken") /\ has("wrap")) \/ (has("beef") /\ has("wrap"))
    THEN "Would you like it with extra garlic sauce (toum) or spicy chili paste?"
    ELSE IF has("soup") \/ has("lentil")
    THEN "Would you like a side of pita chips with that?"
    ELSE IF has("skewer") \/ (has("lamb") /\ has("skewer"))
    THEN "That's a la carte. Is the skewer to be cooked medium, medium-well, or well done?"
    ELSE IF has("falafel") /\ (has("wrap") \/ has("sandwich"))
    THEN "Is this for immediate pickup, or would you like to schedule a time?"
    ELSE IF has("vegetarian platter") \/ has("vegetarian plate")
    THEN "Which two vegetarian pastries would you like included? We have cheese roll, spinach pie, and more."
    ELSE IF has("shish taouk") \/ (has("chicken") /\ has("plate") /\ has("kabob"))
    THEN "Your plate comes with rice and your choice of salad (tabbouleh, fattoush, or simple garden). Which would you prefer?"
    ELSE IF has("manakish") \/ has("za'atar")
    THEN "Would you like any additions like tomato and mint?"
    ELSE IF has("burger") \/ (has("kafta") /\ has("burger"))
    THEN "Our burger uses a kafta blend patty. What cheese and toppings would you prefer?"
    ELSE IF has("tabbouleh") /\ (has("large") \/ has("big"))
    THEN "Would you like to add any protein to that, like grilled halloumi or chicken?"
    ELSE IF has("arak")
    THEN "Would you like that on the rocks with water?"
    ELSE IF has("turkish coffee") \/ (has("coffee") /\ has("turkish"))
    THEN "How would you like it: plain, medium sweet, or very sweet?"
    ELSE IF has("batata") \/ (has("spicy") /\ has("potato"))
    THEN "Do you want that regular spice or the extra-hot version?"
    ELSE IF has("feast") \/ (has("family") /\ (has("4") \/ has("four")))
    THEN "The 'Mezze Experience' feeds 4 with 6 mezze items. Is that suitable, or should we build a custom order?"
    ELSE IF has("sambousek")
    THEN "We offer beef and lamb sambousek. How many of each would you like?"
    ELSE IF has("kibbeh nayyeh") /\ (has("large") \/ has("big"))
    THEN "A large platter serves 6-8 people. When is the earliest you need to pick it up for freshness?"
    ELSE IF has("baklava") /\ (has("20") \/ has("dozen") \/ has("tray"))
    THEN "That is a medium tray. Would you like it packaged with a serving utensil?"
    ELSE IF Len(order_items) > 2 /\ has("mixed grill")
    THEN "Do you want the mixed grill meats separated, or all together on one platter?"
    ELSE IF has("kids meal") \/ (has("kids") /\ has("meal"))
    THEN "What drinks and sides would you like for the kids' meals?"
    ELSE IF (has("pita") /\ (has("10") \/ has("dozen") \/ has("large")))
            \/ (has("labneh") /\ has("kilo"))
    THEN "Would you like the labneh seasoned with olive oil and za'atar?"
    ELSE IF has("pitcher") /\ has("lemonade")
    THEN "Will this be sparkling or still lemonade?"
    ELSE IF has("6 people") \/ has("six people") \/ has("sharing") \/ has("what's a good way")
    THEN "We recommend our 'Family Mixed Grill' (serves 6) plus three mezze appetizers. Would you like to hear the suggested mezze?"
    ELSE ""

\* order_followup_mappings.json: key words of a caller request |-> template
FOLLOWUP_MAPPINGS ==
    << <<"large tabbouleh salad",
         "Would you like to add any protein to that, like grilled halloumi or chicken?">> >>

FOLLOWUP_STOP_WORDS ==
    {"i", "a", "an", "the", "just", "want", "get", "one", "do", "like", "would",
     "can", "could", "please", "for", "to", "with", "under"}

\* the template of the first mapping that shares two words with the text
followup_match(mappings, text) ==
    LET text_words == word_set(str_lower(text)) \ FOLLOWUP_STOP_WORDS
        hit == {i \in 1..Len(mappings) :
                   Cardinality(word_set(str_lower(mappings[i][1])) \cap text_words) >= 2}
    IN IF hit = {} THEN "" ELSE mappings[Min(hit)][2]

(***************************************************************************)
(* Turn Resolver: process_customer_message                                 *)
(***************************************************************************)
repeat_phrases ==
    <<"what was my order", "repeat my order", "what did i order",
      "read back my order", "recap my order">>

order_request_phrases ==
    <<"can i make an order", "can i place an order", "i want to order",
      "i'd like to order", "id like to order", "i would like to order",
      "would like to order", "can i order", "i want to place an order",
      "how do i order", "place an order", "make an order",
      "like to make an order", "like to place an order",
      "want to make an order", "want to place an order">>

order_like_keywords ==
    <<"order", "pickup", "takeout", "shawarma", "wrap", "sandwich", "kebab",
      "kabob", "tray", "mixed grill", "kabob", "hummus", "falafel", "tabbouleh",
      "fattoush", "baklava", "fries", "coke", "soda", "soft drink">>

\* a filter that catches no topic
no_unrelated_keywords == <<>>

unrelated_keywords ==
    <<"weather", "temperature", "rain", "snow", "forecast", "sunny", "cloudy",
      "news", "sports", "politics", "stock", "crypto", "bitcoin",
      "movie", "tv show", "netflix", "youtube", "streaming",
      "recipe", "cooking", "how to cook", "how to make",
      "joke", "tell me a joke", "funny", "entertainment">>

correction_words == <<"not", "not 1", "not one", "wrong", "incorrect", "should be">>

end_phrases ==
    <<"that's all", "that is all", "that's it", "that will be all",
      "no that's it", "no that's all", "no that's everything", "i'm done",
      "nothing else", "we're good", "we are good", "that's everything",
      "yes that's it", "yes that's all">>

ORDER_PROMPT ==
    "Absolutely! I'd be happy to help you place an order. "
    \o "What would you like to order today? You can tell me the items and quantities, "
    \o "for example, '2 chicken shawarma wraps' or 'a mixed grill plate'."

UNRELATED_REDIRECT ==
    "I'm here to help with questions about Cedar Garden Lebanese Kitchen - "
    \o "our menu, hours, reservations, orders, and location. "
    \o "I can't help with general questions like weather, news, or entertainment. "
    \o "What can I help you with regarding our restaurant?"

ORDER_CLOSING ==
    "Perfect, we've got your request noted. "
    \o "If you need to make any changes or have questions, please call us at "
    \o "(714) 555-8734. Thank you for calling Cedar Garden, and have a wonderful day!"

TECHNICAL_DIFFICULTIES ==
    "I apologize, but I'm having some technical difficulties. Please try again or call back later."

\* rag.generate_response when the completion call fails
LLM_ERROR_REPLY ==
    "I apologize, but I'm having trouble processing your request right now. Please try again or call back later."

\* the closing script of a finalized order
OrderConfirmed(order_items) ==
    "Perfect! Your order is confirmed. You have: "
    \o str_join(", ", OrderParts(order_items)) \o ". "
    \o "The estimated total is " \o Money(SumTotals(order_items)) \o " before tax and fees. "
    \o "Your order will be ready for pickup in approximately 25-30 minutes. "
    \o "We're located at 1840 Cedar Grove Ave, Fullerton, CA 92831. "
    \o "Thank you for choosing Cedar Garden Lebanese Kitchen!"

\* a ticket that copies unit prices where line totals belong
TicketOfUnitPrices(order_items) ==
    [items |-> [i \in 1..Len(order_items) |->
                   [name |-> order_items[i].name,
                    quantity |-> order_items[i].quantity,
                    line_total |-> order_items[i].unit_price]],
     total |-> SumTotals(order_items),
     note |-> "Pickup in ~25-30 minutes",
     status |-> "pending"]

\* the ticket snapshot built at finalization (the note's dash is written "-")
KitchenTicket(order_items) ==
    [items |-> [i \in 1..Len(order_items) |->
                   [name |-> order_items[i].name,
                    quantity |-> order_items[i].quantity,
                    line_total |-> order_items[i].total_price]],
     total |-> SumTotals(order_items),
     note |-> "Pickup in ~25-30 minutes",
     status |-> "pending"]

\* re.search(r"(\d+)\s+(?:sandwich|sandwiches|wrap|wraps)", text_lower):
\* the number, or <<>> when there is no match
SandwichQuantity(text_lower) ==
    LET at == {i \in DigitRunStarts(text_lower) :
                  LET e == SpanEnd(text_lower, i, DigitSet)
                      f == SpanEnd(text_lower, e, SpaceSet)
                  IN f > e /\ (StartsAt(text_lower, f, "sandwich")
                               \/ StartsAt(text_lower, f, "wrap"))}
    IN IF at = {} THEN <<>>
       ELSE <<str_int(SubSeq(text_lower, Min(at),
                             SpanEnd(text_lower, Min(at), DigitSet) - 1))>>

SandwichChoice(quantity) ==
    "Great! I'd be happy to help you order " \o ToString(quantity) \o " "
    \o (IF quantity = 1 THEN "sandwich" ELSE "sandwiches") \o ". "
    \o "Which type would you like? We have:\n"
    \o "1. Chicken Shawarma Wrap - $15.50\n"
    \o "2. Beef Shawarma Wrap - $16.00\n"
    \o "3. Falafel Wrap - $14.00\n"
    \o "4. Kafta Wrap - $16.25\n"
    \o "Just let me know how many of each you'd like!"

\* an add-or-merge loop that puts a new line before the lines of the order
RECURSIVE MergeItemsNewestFirst(_, _, _, _)
MergeItemsNewestFirst(order_items, parsed_items, is_correction, last_added_item) ==
    IF Len(parsed_items) = 0
    THEN [order_items |-> order_items, last_added_item |-> last_added_item]
    ELSE LET parsed_item == parsed_items[1]
             existing == ExistingLine(order_items, parsed_item.name)
         IN IF existing # 0
            THEN MergeItemsNewestFirst(
                    SetQuantity(order_items, existing,
                                MergedQuantity(order_items[existing].quantity,
                                               parsed_item.quantity, is_correction)),
                    Tail(parsed_items), is_correction, last_added_item)
            ELSE MergeItemsNewestFirst(<<parsed_item>> \o order_items, Tail(parsed_items),
                                       is_correction, parsed_item.name)

\* the add-or-merge loop of step 5: the order after it and the name of the
\* last line it appended ("" when every parsed item met an existing line)
RECURSIVE MergeItems(_, _, _, _)
MergeItems(order_items, parsed_items, is_correction, last_added_item) ==
    IF Len(parsed_items) = 0
    THEN [order_items |-> order_items, last_added_item |-> last_added_item]
    ELSE LET parsed_item == parsed_items[1]
             existing == ExistingLine(order_items, parsed_item.name)
         IN IF existing # 0
            THEN MergeItems(
                    SetQuantity(order_items, existing,
                                MergedQuantity(order_items[existing].quantity,
                                               parsed_item.quantity, is_correction)),
                    Tail(parsed_items), is_correction, last_added_item)
            ELSE MergeItems(Append(order_items, parsed_item), Tail(parsed_items),
                            is_correction, parsed_item.name)

\* what the retrieval and generation collaborator meets in a turn that
\* reaches it: get_rag_system raises, or the completion call of
\* generate_response answers, or that call fails
RAG_OUTCOMES == {"init_error", "llm_gpt4o_mini", "llm_error"}

\* the text the language model answers with
LLM_REPLY == "We would be glad to help you with that."

\* the most responses the cache keeps
_cache_max_size == 500

\* the digest of the context text, "" when no document was retrieved (a digest
\* stands as the text it digests)
context_hash(context_text) ==
    IF context_text = "" THEN "" ELSE "md5(" \o context_text \o ")"

\* _get_cache_key: the key of a query and the digest of its context (the
\* digest of the key string stands as the string)
_get_cache_key(query, hash) == str_strip(str_lower(query)) \o ":" \o hash

\* the positions of a key in _response_cache, an ordered dictionary kept as
\* the sequence of its entries, oldest first
CachePositions(cache, cache_key) == {i \in 1..Len(cache) : cache[i].key = cache_key}

CacheWithout(cache, i) == SubSeq(cache, 1, i - 1) \o SubSeq(cache, i + 1, Len(cache))

\* _get_cached_response whatever the age of the entry
CacheLookupServingStale(cache, i) ==
    [response |-> <<cache[i].response>>, cache |-> Append(CacheWithout(cache, i), cache[i])]

\* _get_cached_response leaving a fresh entry where it is
CacheLookupInPlace(cache, i) ==
    IF ~cache[i].fresh
    THEN [response |-> <<>>, cache |-> CacheWithout(cache, i)]
    ELSE [response |-> <<cache[i].response>>, cache |-> cache]

\* _get_cached_response: the response found and the cache after the lookup;
\* an entry older than the time to live (not fresh) is dropped, a fresh one
\* moves to the end
CacheLookup(cache, i) ==
    IF ~cache[i].fresh
    THEN [response |-> <<>>, cache |-> CacheWithout(cache, i)]
    ELSE [response |-> <<cache[i].response>>,
          cache |-> Append(CacheWithout(cache, i), cache[i])]

_get_cached_response(cache, cache_key) ==
    IF CachePositions(cache, cache_key) = {}
    THEN [response |-> <<>>, cache |-> cache]
    ELSE CacheLookup(cache, CHOOSE i \in CachePositions(cache, cache_key) : TRUE)

\* the entry of a key set, in place when the key is there, else at the end
CacheSet(cache, entry) ==
    IF CachePositions(cache, entry.key) = {}
    THEN Append(cache, entry)
    ELSE [i \in 1..Len(cache) |-> IF cache[i].key = entry.key THEN entry ELSE cache[i]]

\* the oldest entry leaves a cache over its size
CacheTrim(cache) == IF Len(cache) > _cache_max_size THEN Tail(cache) ELSE cache

\* _cache_response
_cache_response(cache, cache_key, response) ==
    CacheTrim(CacheSet(cache, [key |-> cache_key, response |-> response, fresh |-> TRUE]))

\* what generate_response returns and where it leaves the cache
Generated(response, source, cache) ==
    [response |-> response, source |-> source, cache |-> cache]

\* generate_response caching what its handler returns as well
GenerateCachingFailure(cached, cache_key, llm) ==
    IF cached.response # <<>>
    THEN Generated(cached.response[1], "llm_cached", cached.cache)
    ELSE IF llm = "llm_error"
    THEN Generated(LLM_ERROR_REPLY, "llm_error",
                   _cache_response(cached.cache, cache_key, LLM_ERROR_REPLY))
    ELSE Generated(LLM_REPLY, "llm_gpt4o_mini",
                   _cache_response(cached.cache, cache_key, LLM_REPLY))

\* generate_response after the lookup: the cached response when there is one
\* and it is not empty, or the reply of the completion call, stored, or the
\* apology of its handler
GenerateReply(cached, cache_key, llm, reply) ==
    IF cached.response # <<>> /\ cached.response[1] # ""
    THEN Generated(cached.response[1], "llm_cached", cached.cache)
    ELSE IF llm = "llm_error"
    THEN Generated(LLM_ERROR_REPLY, "llm_error", cached.cache)
    ELSE Generated(reply, "llm_gpt4o_mini",
                   _cache_response(cached.cache, cache_key, reply))

\* generate_response after the lookup when the completion call answers
\* LLM_REPLY
GenerateAfterLookup(cached, cache_key, llm) ==
    GenerateReply(cached, cache_key, llm, LLM_REPLY)

\* generate_response of a turn: the collection returns no document for the
\* query and the completion call answers LLM_REPLY
generate_response(cache, query, llm) ==
    GenerateAfterLookup(_get_cached_response(cache, _get_cache_key(query, context_hash(""))),
                        _get_cache_key(query, context_hash("")), llm)

\* the slow path of a turn: get_rag_system, then generate_response
SlowPath(cache, query, rag) ==
    IF rag = "init_error" THEN Generated("", "init_error", cache)
    ELSE generate_response(cache, query, rag)

\* conversation.messages[-4:], the history a turn hands to generate_response
LastMessages(messages) ==
    SubSeq(messages, IF Len(messages) > 4 THEN Len(messages) - 3 ELSE 1, Len(messages))

\* what the completion call is asked last: the query, under the business
\* information when some was retrieved
UserMessage(query, context_text) ==
    IF context_text = "" THEN query
    ELSE "Business Information:\n" \o context_text \o "\n\nCustomer Question: " \o query

\* the reply of the completion call, a function of the messages it is given:
\* it takes up what the history opens with when the history holds more than
\* the query, and cites the business information it was given
Completion(conversation_history, query, context_text) ==
    (IF Len(conversation_history) > 1
     THEN "About " \o conversation_history[1].content \o ": " ELSE "")
    \o (IF context_text = "" THEN "" ELSE "Per " \o context_text \o ". ")
    \o LLM_REPLY

\* generate_response of a query, under a history and a retrieved context
generate_response_for(cache, query, conversation_history, context_text, llm) ==
    With(_get_cache_key(query, context_hash(context_text)), LAMBDA cache_key :
        GenerateReply(_get_cached_response(cache, cache_key), cache_key, llm,
                      Completion(conversation_history, query, context_text)))

\* the keys of the cache
CacheKeys(cache) == {cache[i].key : i \in 1..Len(cache)}

\* a key of the cache with the query, the context, the session and the
\* history its response was generated for
CacheUse(query, context_text, call_sid, conversation_history) ==
    [key |-> _get_cache_key(query, context_hash(context_text)), query |-> query,
     context |-> context_text, call_sid |-> call_sid, history |-> conversation_history]

\* the record of the uses of the cache after a call of generate_response that
\* returned from a source: a stored key is the most recently used, under the
\* session and the history of the call; a read key is the most recently used,
\* under those it was stored for; a key that left the cache leaves the record
Used(use, cache, source, query, context_text, call_sid, conversation_history) ==
    With(CacheUse(query, context_text, call_sid, conversation_history), LAMBDA new :
    With(CacheKeys(cache), LAMBDA keys :
        SelectSeq(
            IF source = "llm_gpt4o_mini"
            THEN Append(SelectSeq(use, LAMBDA u : u.key # new.key), new)
            ELSE IF source = "llm_cached"
            THEN SelectSeq(use, LAMBDA u : u.key # new.key)
                 \o SelectSeq(use, LAMBDA u : u.key = new.key)
            ELSE use,
            LAMBDA u : u.key \in keys)))

\* the record of the uses of the cache after a turn
UsedByTurn(use, rag, rag_invoked, query, call_sid, messages) ==
    IF ~rag_invoked THEN use
    ELSE Used(use, rag.cache, rag.source, query, "", call_sid, LastMessages(messages))

\* a or b: the first result that is present
OrElse(first, second) == IF first # <<>> THEN first ELSE second

\* the items step 5 works with: the multi-item parser, then the single-item
\* parser when it found nothing
ExtractItems(index, text) ==
    IF ~any_in(order_like_keywords, str_lower(text)) THEN <<>>
    ELSE OrElse(_parse_multiple_items(index, text), _parse_quantity_and_item(index, text))

\* the quantity and the description of the shorthand, after strip and aliases
CorrectionRequest(text_lower) ==
    IF correction_match(text_lower) = <<>> THEN <<>>
    ELSE <<[qty |-> correction_match(text_lower)[1].qty,
            item_desc |-> ApplyReplacements(str_strip(correction_match(text_lower)[1].desc),
                                            item_aliases_local, 1)]>>

\* float(total_price) raises for a line of the order, or float(price) raised
\* while a parser built one of these lines
LinesRaise(order_items) ==
    \E i \in 1..Len(order_items) : ~IsNumber(order_items[i].total_price)

\* Everything a turn derives from the caller's text alone, in the order the
\* handler derives it.
AnalyzeText(data, index, text, text_lower, parsed_items) ==
    [text_lower |-> text_lower,
     rule_intent |-> classify_intent_rule_based(text),
     is_confirmation |-> is_confirmation(text_lower),
     correction |-> CorrectionRequest(text_lower),
     repeat |-> any_in(repeat_phrases, text_lower),
     order_request |-> any_in(order_request_phrases, text_lower),
     parsed_items |-> parsed_items,
     parse_raised |-> LinesRaise(parsed_items),
     qty_match |-> IF parsed_items = <<>> /\ any_in(order_like_keywords, text_lower)
                      /\ any_in(<<"sandwich", "sandwiches", "wrap", "wraps">>, text_lower)
                   THEN SandwichQuantity(text_lower) ELSE <<>>,
     is_correction |-> any_in(correction_words, text_lower),
     unrelated |-> any_in(unrelated_keywords, text_lower),
     direct |-> answer_from_facts(data, index, text),
     followup_match |-> followup_match(FOLLOWUP_MAPPINGS, text),
     intent_response |-> [intent \in Intent |->
                             answer_from_intent(data, index, text, intent)],
     done |-> any_in(end_phrases, text_lower)]

TextAnalysis(data, index, text) ==
    AnalyzeText(data, index, text, str_lower(text), ExtractItems(index, text))

\* a cascade whose answers from the facts and from the intent templates start
\* a new order
OutStartingOver(order_items, response, source, branch, early) ==
    [order_items |-> IF branch \in {"facts", "intent"} THEN <<>> ELSE order_items,
     response |-> response, response_source |-> source,
     branch |-> branch, early |-> early, rag_invoked |-> FALSE, raised |-> FALSE]

\* the result of a cascade branch
Out(order_items, response, source, branch, early) ==
    [order_items |-> order_items, response |-> response, response_source |-> source,
     branch |-> branch, early |-> early, rag_invoked |-> FALSE, raised |-> FALSE]

\* an exception that leaves the handler without a response
Uncaught(order_items, branch) ==
    [Out(order_items, "", "unknown", branch, TRUE) EXCEPT !.raised = TRUE]

\* except Exception: the apology is returned; the order is as the failing
\* step left it
Caught(order_items, branch) ==
    [Out(order_items, TECHNICAL_DIFFICULTIES, "unknown", branch, TRUE) EXCEPT !.raised = TRUE]

\* a branch whose response reads _summarize_order of the order it leaves
Summarized(out) ==
    IF LinesRaise(out.order_items) THEN Caught(out.order_items, out.branch) ELSE out

\* the catalog entries whose name contains, or is contained in, the item name
OfferedEntries(index, item_name) ==
    IF item_name = "" THEN {}
    ELSE {k \in 1..Len(index) : EitherContains(item_name, index[k].key)}

\* step 1, once the caller has affirmed and the last message invited an add
ConfirmationResult(index, order_items, asked_to_add, offered) ==
    IF offered # {}
    THEN <<Summarized(
             Out(AddOne(order_items, index[Min(offered)]),
                 _summarize_order(AddOne(order_items, index[Min(offered)])) \o ANYTHING_ELSE,
                 "template_order_parsed", "confirmation", TRUE))>>
    ELSE IF asked_to_add
    THEN <<Summarized(
             Out(order_items,
                 IF order_items # <<>> THEN _summarize_order(order_items) \o ANYTHING_ELSE
                 ELSE ADD_PROMPT,
                 "template_order_parsed", "confirmation", TRUE))>>
    ELSE <<>>

\* step 1: pending confirmation
ConfirmationStep(index, conv, a, last_assistant_msg, last_msg_lower) ==
    IF /\ last_assistant_msg # ""
       /\ a.is_confirmation
       /\ \/ str_in("would you like to add", last_msg_lower)
          \/ str_in("add.*to your order", last_msg_lower)
    THEN ConfirmationResult(index, conv.order_items,
                            str_in("would you like to add", last_msg_lower),
                            OfferedEntries(index, OfferedItemName(index, last_assistant_msg)))
    ELSE <<>>

\* step 2, once the shorthand matched and the order has lines
CorrectionResult(order_items, corrected_qty, line) ==
    IF line = 0 THEN <<>>
    ELSE <<Summarized(
             Out(SetQuantity(order_items, line, corrected_qty),
                 _summarize_order(SetQuantity(order_items, line, corrected_qty))
                 \o ANYTHING_ELSE,
                 "template_order_parsed", "correction", TRUE))>>

\* step 2: quantity-correction shorthand
CorrectionStep(conv, a) ==
    IF a.correction # <<>> /\ conv.order_items # <<>>
    THEN CorrectionResult(conv.order_items, a.correction[1].qty,
                          CorrectedLine(conv.order_items, a.correction[1].item_desc))
    ELSE <<>>

\* step 5, once items were parsed: the merged order and its summary
ExtractionResult(merged, followup) ==
    Summarized(
        Out(merged.order_items,
            IF followup # ""
            THEN _summarize_order(merged.order_items) \o " " \o followup
            ELSE _summarize_order(merged.order_items),
            "template_order_parsed", "extraction", FALSE))

FollowupFor(merged) ==
    IF merged.last_added_item = "" THEN ""
    ELSE _get_order_followup_question(merged.last_added_item, merged.order_items)

\* steps 3 to 11: the if/elif chain that always produces a response
TemplateStep(conv, a, intent, rag) ==
    IF a.repeat
    THEN Summarized(Out(conv.order_items, _summarize_order(conv.order_items),
                        "template_order_repeat", "repeat", FALSE))
    ELSE IF a.order_request
    THEN IF conv.order_items # <<>>
         THEN Summarized(
                Out(conv.order_items,
                    _summarize_order(conv.order_items)
                    \o " Would you like to add anything else to your order?",
                    "template_order_summary", "order_request", FALSE))
         ELSE Out(conv.order_items, ORDER_PROMPT,
                  "template_order_prompt", "order_request", FALSE)
    ELSE IF a.parse_raised
    THEN Caught(conv.order_items, "parse")
    ELSE IF a.qty_match # <<>>
    THEN Out(conv.order_items, SandwichChoice(a.qty_match[1]),
             "template_sandwich_choice", "sandwich_choice", TRUE)
    ELSE IF a.parsed_items # <<>>
    THEN ExtractionResult(
            MergeItems(conv.order_items, a.parsed_items, a.is_correction, ""),
            FollowupFor(MergeItems(conv.order_items, a.parsed_items, a.is_correction, "")))
    ELSE IF a.unrelated
    THEN Out(conv.order_items, UNRELATED_REDIRECT, "template_unrelated", "unrelated", FALSE)
    ELSE IF a.direct # ""
    THEN Out(conv.order_items, a.direct, "template_facts", "facts", FALSE)
    ELSE IF a.followup_match # ""
    THEN Out(conv.order_items, a.followup_match,
             "template_followup_mappings", "followup_mappings", FALSE)
    ELSE IF a.intent_response[intent] # ""
    THEN Out(conv.order_items, a.intent_response[intent],
             "template_intent", "intent", FALSE)
    ELSE IF rag.source = "init_error"
    THEN [Caught(conv.order_items, "rag") EXCEPT !.rag_invoked = TRUE]
    ELSE [Out(conv.order_items, rag.response, rag.source, "rag", FALSE)
            EXCEPT !.rag_invoked = TRUE]

\* The cascade of one turn up to its first response: the order after it, the
\* response and its provenance, the branch that answered, whether that
\* branch returned early, whether the collaborator was invoked and whether
\* the handler caught an exception.
FirstResponse(index, conv, a, intent, rag, last_assistant_msg) ==
    OrElse(ConfirmationStep(index, conv, a, last_assistant_msg, str_lower(last_assistant_msg)),
           OrElse(CorrectionStep(conv, a), <<TemplateStep(conv, a, intent, rag)>>))[1]

\* a ticket that follows the order in every turn once it exists
TicketFollowingOrder(conv, a, first) ==
    IF first.order_items # <<>> /\ (conv.kitchen_ticket # <<>> \/ (~first.early /\ a.done))
    THEN <<KitchenTicket(first.order_items)>>
    ELSE conv.kitchen_ticket

\* conversation.kitchen_ticket after the turn: the snapshot of the order when
\* the text holds an end phrase and the order has lines, else as it was
TicketAfter(conv, a, first) ==
    IF ~first.early /\ a.done /\ first.order_items # <<>>
    THEN <<KitchenTicket(first.order_items)>>
    ELSE conv.kitchen_ticket

\* a closing override that returns the closing text and leaves the history
\* with the first response
CloseTurnKeepingFirstResponse(conv, text, a, intent, first, said) ==
    [conv |->
        [messages |->
            IF first.raised /\ said = <<>> THEN add_message(conv.messages, "user", text)
            ELSE IF first.raised
            THEN add_message(add_message(conv.messages, "user", text), "assistant", said[1])
            ELSE add_message(add_message(conv.messages, "user", text), "assistant",
                             first.response),
         current_intent |-> intent,
         order_items |-> first.order_items,
         kitchen_ticket |-> TicketAfter(conv, a, first)],
     response |->
        IF first.early \/ ~a.done THEN first.response
        ELSE IF first.order_items # <<>> THEN OrderConfirmed(first.order_items)
        ELSE ORDER_CLOSING,
     response_source |->
        IF first.early \/ ~a.done THEN first.response_source
        ELSE IF first.order_items # <<>> THEN "template_order_finalized"
        ELSE "template_order_closing",
     branch |-> first.branch,
     finalized |-> ~first.early /\ a.done /\ first.order_items # <<>>,
     rag_invoked |-> first.rag_invoked,
     raised |-> first.raised,
     parsed_items |-> IF first.branch = "extraction" THEN a.parsed_items ELSE <<>>]

\* The closing override and the bookkeeping that follow the first response:
\* the early returns and the exception handler skip the override.  said holds
\* the response that was appended to the history before a late exception.
CloseTurn(conv, text, a, intent, first, said) ==
    [conv |->
        [messages |->
            IF first.raised /\ said = <<>> THEN add_message(conv.messages, "user", text)
            ELSE IF first.raised
            THEN add_message(add_message(conv.messages, "user", text), "assistant", said[1])
            ELSE add_message(add_message(conv.messages, "user", text), "assistant",
                     IF first.early \/ ~a.done THEN first.response
                     ELSE IF first.order_items # <<>> THEN OrderConfirmed(first.order_items)
                     ELSE ORDER_CLOSING),
         current_intent |-> intent,
         order_items |-> first.order_items,
         kitchen_ticket |-> TicketAfter(conv, a, first)],
     response |->
        IF first.early \/ ~a.done THEN first.response
        ELSE IF first.order_items # <<>> THEN OrderConfirmed(first.order_items)
        ELSE ORDER_CLOSING,
     response_source |->
        IF first.early \/ ~a.done THEN first.response_source
        ELSE IF first.order_items # <<>> THEN "template_order_finalized"
        ELSE "template_order_closing",
     branch |-> first.branch,
     finalized |-> ~first.early /\ a.done /\ first.order_items # <<>>,
     rag_invoked |-> first.rag_invoked,
     raised |-> first.raised,
     parsed_items |-> IF first.branch = "extraction" THEN a.parsed_items ELSE <<>>]

\* The ticket snapshot reads float(total_price) of every line after the first
\* response was appended to the history: an exception there reaches the
\* handler with the ticket not yet assigned.
FinishTurn(conv, text, a, intent, first) ==
    IF ~first.raised /\ ~first.early /\ a.done /\ LinesRaise(first.order_items)
    THEN CloseTurn(conv, text, a, intent,
                   [Caught(first.order_items, "finalization")
                       EXCEPT !.rag_invoked = first.rag_invoked],
                   <<first.response>>)
    ELSE CloseTurn(conv, text, a, intent, first, <<>>)

\* One turn, given the analysis of its text.  conv is the session before the
\* turn, intent the result of classify_intent and rag the behaviour of the
\* collaborator if it is reached.  The result holds the session after the
\* turn, the returned response, its provenance, the cascade branch that
\* produced the first response, the items step 5 merged, and whether the
\* collaborator was invoked and whether the handler caught an exception.
Turn(index, conv, text, a, intent, rag) ==
    FinishTurn(conv, text, a, intent,
               FirstResponse(index, conv, a, intent, rag, LastAssistantMessage(conv.messages)))

process_customer_message(conv, text, intent, rag) ==
    Turn(MENU_INDEX, conv, text, TextAnalysis(BUSINESS_DATA, MENU_INDEX, text), intent, rag)

(***************************************************************************)
(* The sessions and their turns                                            *)
(***************************************************************************)
\* the number of messages and session clears one run handles
MaxTurns == 2

CallSids == {"CA1"}

\* what callers say
Utterances ==
    {"2 chicken shawarma wraps", "2 chicken shawarma wraps and 1 coke",
     "2 cokes and 1 coke", "no 3 soft drinks not 1",
     "incorrect 1 chicken shawarma", "it should be 3 chicken shawarma",
     "yes", "yes that's all", "that's all", "what was my order", "repeat my order",
     "what's the weather", "how much is baba ghanoush", "hello",
     "a large tabbouleh salad", "can i book a table"}

\* how the classifier tiers and the collaborator behave during a turn
Environments ==
    {[ml |-> "none", llm |-> "general_question", rag |-> "llm_gpt4o_mini"],
     [ml |-> "none", llm |-> "reservation", rag |-> "llm_gpt4o_mini"],
     [ml |-> "none", llm |-> "error", rag |-> "init_error"],
     [ml |-> "pricing", llm |-> "not_an_intent", rag |-> "llm_error"]}

\* the analysis of each utterance, computed once
UtteranceAnalysis == [text \in Utterances |-> TextAnalysis(BUSINESS_DATA, MENU_INDEX, text)]

ANALYSIS == IF UtteranceAnalysis = UtteranceAnalysis THEN UtteranceAnalysis ELSE <<>>

VARIABLES
    conversations,  \* call_sid |-> ConversationState, for the live sessions
    turns,          \* the number of operations handled so far
    last,           \* the last operation: its inputs, the session before it, its result
    classification, \* a call of classify_intent: its inputs and, once made, its result
    response_cache, \* _response_cache: the entries, oldest first
    constructed,    \* call_sid |-> how many ConversationState objects were made for it
    handles,        \* call_sid |-> the object its latest get_conversation returned
    registry_call,  \* the last call of get_conversation or clear_conversation
    active_connections, \* manager.active_connections: session_id |-> chat client
    clients,        \* the callers and chat clients: where each is in its session
    speakers,       \* session_id |-> the clients whose turns its session has taken
    tasks,          \* the turns under way: where each is, and the object it holds
    orphans,        \* the sessions that left the registry while a turn held them
    parse,          \* a call of the extractors: its inputs and, once made, its results
    cache_use       \* the keys of _response_cache, the least recently stored or read
                    \* first, each with the session and the history it was generated for

vars == <<conversations, turns, last, classification, response_cache,
          constructed, handles, registry_call, active_connections, clients, speakers,
          tasks, orphans, parse, cache_use>>

\* what the turns under way keep
task_vars == <<tasks, orphans>>

\* what the transports keep
transport_vars == <<active_connections, clients>>

NoTurn ==
    [op |-> "none", call_sid |-> "", text |-> "", before |-> ConversationState,
     response |-> "", response_source |-> "", branch |-> "", finalized |-> FALSE,
     rag_invoked |-> FALSE, raised |-> FALSE, parsed_items |-> <<>>,
     generation |-> "", cache |-> <<>>]

NoClassification ==
    [text |-> "", ml |-> "none", rule |-> "returns", llm |-> "error", done |-> FALSE,
     result |-> Classified("None", "", FALSE, 0)]

\* no call of get_conversation or clear_conversation yet
NoRegistryCall ==
    [op |-> "none", call_sid |-> "", before |-> <<>>, after |-> <<>>, handle |-> <<>>,
     generation |-> 0, state |-> ConversationState]

\* the callers and chat clients: one phone caller, two chats over the
\* WebSocket endpoint, two chats over POST /api/chat/message
PhoneClients == {"caller"}

WsClients == {"widget1", "widget2"}

HttpClients == {"browser1", "browser2"}

Clients == PhoneClients \cup WsClients \cup HttpClients

\* no call has come in and no chat has connected
NoClients ==
    [c \in Clients |-> [state |-> "idle", session_id |-> "", notified |-> FALSE]]

\* the turns that may be under way at once
Tasks == {"turn1", "turn2"}

\* no turn has begun
NoTasks ==
    [task \in Tasks |->
        [pc |-> "idle", call_sid |-> "", text |-> "", ref |-> 0, overlapped |-> FALSE,
         registered |-> FALSE, cleared |-> FALSE, added |-> <<>>]]

\* no call of the extractors yet
NoParse ==
    [catalog |-> "menu", order_items |-> <<>>, text |-> "", rendered |-> TRUE,
     multiple |-> <<>>, single |-> <<>>, parsed_multiple |-> FALSE,
     parsed_single |-> FALSE]

\* the registry is empty and nothing has been asked of it
RegistryInit ==
    /\ conversations = <<>>
    /\ constructed = <<>>
    /\ handles = <<>>
    /\ registry_call = NoRegistryCall
    /\ active_connections = <<>>
    /\ clients = NoClients
    /\ speakers = <<>>
    /\ tasks = NoTasks
    /\ orphans = <<>>
    /\ parse = NoParse
    /\ cache_use = <<>>

Init ==
    /\ RegistryInit
    /\ turns = 0
    /\ last = NoTurn
    /\ classification = NoClassification
    /\ response_cache = <<>>

\* a get_conversation that makes a new session on every call
get_conversation_anew(call_sid) == ConversationState

\* a test of the registry that never finds the session
CreatesAlways(call_sid) == TRUE

\* get_conversation: call_sid not in conversations
Creates(call_sid) == call_sid \notin DOMAIN conversations

\* get_conversation: the session of the call, created on first use
get_conversation(call_sid) ==
    IF Creates(call_sid) THEN ConversationState ELSE conversations[call_sid]

\* conversations[call_sid] = conv
Store(call_sid, conv) ==
    [c \in DOMAIN conversations \cup {call_sid} |->
        IF c = call_sid THEN conv ELSE conversations[c]]

\* the objects made so far for a session id
ConstructedFor(call_sid) ==
    IF call_sid \in DOMAIN constructed THEN constructed[call_sid] ELSE 0

\* ConversationState(call_sid, business_id) in get_conversation: one more
\* object for a session id that is not in the registry
Constructed(call_sid) ==
    IF ~Creates(call_sid) THEN constructed
    ELSE [c \in DOMAIN constructed \cup {call_sid} |->
            IF c = call_sid THEN ConstructedFor(call_sid) + 1 ELSE constructed[c]]

\* the object a caller holds after get_conversation: the one made last for
\* the session id, and no clear_conversation since
Handed(call_sid) ==
    [c \in DOMAIN handles \cup {call_sid} |->
        IF c = call_sid
        THEN [generation |-> Constructed(call_sid)[call_sid], cleared |-> FALSE]
        ELSE handles[c]]

\* the object the previous get_conversation of a session id returned, if any
HandleOf(call_sid) ==
    IF call_sid \in DOMAIN handles THEN <<handles[call_sid]>> ELSE <<>>

\* clear_conversation was called since the objects of that id were handed out
Cleared(call_sid) ==
    [c \in DOMAIN handles |->
        IF c = call_sid THEN [handles[c] EXCEPT !.cleared = TRUE] ELSE handles[c]]

\* a call of get_conversation on its own
GetConversation(call_sid) ==
    /\ conversations' = Store(call_sid, get_conversation(call_sid))
    /\ constructed' = Constructed(call_sid)
    /\ handles' = Handed(call_sid)
    /\ registry_call' =
          [op |-> "get", call_sid |-> call_sid, before |-> conversations,
           after |-> conversations', handle |-> HandleOf(call_sid),
           generation |-> constructed'[call_sid], state |-> conversations'[call_sid]]
    /\ UNCHANGED <<turns, last, classification, response_cache, cache_use, transport_vars, speakers, task_vars, parse>>

\* process_customer_message with the catalog index and the analysis of the
\* text; the bound names hold the session and the result of the turn, computed
\* once
TurnStep(index, a, call_sid, text, env) ==
    /\ turns < MaxTurns
    /\ \E conv \in {get_conversation(call_sid)} :
       \E rag \in {SlowPath(response_cache, text, env.rag)} :
       \E r \in {Turn(index, conv, text, a,
                       classify_intent_auto(env.ml, a.rule_intent, env.llm).intent,
                       rag)} :
          /\ conversations' = Store(call_sid, r.conv)
          /\ response_cache' = IF r.rag_invoked THEN rag.cache ELSE response_cache
          /\ cache_use' = UsedByTurn(cache_use, rag, r.rag_invoked, text, call_sid,
                                     add_message(conv.messages, "user", text))
          /\ last' = [op |-> "message", call_sid |-> call_sid, text |-> text,
                      before |-> conv, response |-> r.response,
                      response_source |-> r.response_source, branch |-> r.branch,
                      finalized |-> r.finalized, rag_invoked |-> r.rag_invoked,
                      raised |-> r.raised, parsed_items |-> r.parsed_items,
                      generation |-> IF r.rag_invoked THEN rag.source ELSE "",
                      cache |-> response_cache]
    /\ constructed' = Constructed(call_sid)
    /\ handles' = Handed(call_sid)
    /\ turns' = turns + 1
    /\ UNCHANGED <<classification, registry_call>>

\* a turn of a session, whatever brought its text
HandleMessage(index, a, call_sid, text, env) ==
    /\ TurnStep(index, a, call_sid, text, env)
    /\ UNCHANGED <<transport_vars, speakers, task_vars, parse>>

\* the clients whose turns the session of an id has taken
SpeakersOf(session_id) ==
    IF session_id \in DOMAIN speakers /\ session_id \in DOMAIN conversations
    THEN speakers[session_id] ELSE {}

\* a client's turn was applied to the session of an id
Spoke(client, session_id) ==
    [s \in DOMAIN speakers \cup {session_id} |->
        IF s = session_id THEN SpeakersOf(session_id) \cup {client} ELSE speakers[s]]

ProcessCustomerMessage(call_sid, text, env) ==
    HandleMessage(MENU_INDEX, ANALYSIS[text], call_sid, text, env)

\* clear_conversation: the entry of the session id leaves the registry, if
\* there is one
ClearStep(call_sid) ==
    /\ conversations' = [c \in DOMAIN conversations \ {call_sid} |-> conversations[c]]
    /\ last' = [NoTurn EXCEPT !.op = "clear", !.call_sid = call_sid,
                              !.before = get_conversation(call_sid)]
    /\ handles' = Cleared(call_sid)
    /\ speakers' = [s \in DOMAIN speakers \ {call_sid} |-> speakers[s]]
    /\ registry_call' =
          [NoRegistryCall EXCEPT !.op = "clear", !.call_sid = call_sid,
                                 !.before = conversations, !.after = conversations',
                                 !.handle = HandleOf(call_sid)]
    /\ UNCHANGED <<classification, response_cache, cache_use, constructed>>

\* clear_conversation as the specifications of the turn cascade call it,
\* counted as one of their operations
ClearConversation(call_sid) ==
    /\ turns < MaxTurns
    /\ ClearStep(call_sid)
    /\ turns' = turns + 1
    /\ UNCHANGED <<transport_vars, task_vars, parse>>

Next ==
    \/ \E call_sid \in CallSids, text \in Utterances, env \in Environments :
          ProcessCustomerMessage(call_sid, text, env)
    \/ \E call_sid \in CallSids : ClearConversation(call_sid)

Spec == Init /\ [][Next]_vars

(***************************************************************************)
(* The same handler over the catalog that holds a price that is no number   *)
(***************************************************************************)
MarketUtterances ==
    {"how much are the lamb chops", "yes", "order 2 lamb chops",
     "2 chicken shawarma wraps", "no 3 chicken shawarma not 2", "that's all",
     "what was my order", "i want to order", "what's the weather", "hello"}

MarketAnalysis == [text \in MarketUtterances |-> TextAnalysis(MARKET_DATA, MARKET_INDEX, text)]

MARKET_ANALYSIS == IF MarketAnalysis = MarketAnalysis THEN MarketAnalysis ELSE <<>>

ProcessMarketMessage(call_sid, text, env) ==
    HandleMessage(MARKET_INDEX, MARKET_ANALYSIS[text], call_sid, text, env)

NextMarket ==
    \/ \E call_sid \in CallSids, text \in MarketUtterances, env \in Environments :
          ProcessMarketMessage(call_sid, text, env)
    \/ \E call_sid \in CallSids : ClearConversation(call_sid)

SpecMarket == Init /\ [][NextMarket]_vars

(***************************************************************************)
(* Orders that name the quantity 0 and orders that end the session in the  *)
(* turn that places them                                                   *)
(***************************************************************************)
LedgerUtterances ==
    {"0 cokes", "1 coke", "no 0 soft drinks not 1", "1 coke that's all", "that's all",
     "2 chicken shawarma wraps", "0 chicken shawarma wraps"}

LedgerAnalysis == [text \in LedgerUtterances |-> TextAnalysis(BUSINESS_DATA, MENU_INDEX, text)]

LEDGER_ANALYSIS == IF LedgerAnalysis = LedgerAnalysis THEN LedgerAnalysis ELSE <<>>

ProcessLedgerMessage(call_sid, text, env) ==
    HandleMessage(MENU_INDEX, LEDGER_ANALYSIS[text], call_sid, text, env)

NextLedger ==
    \/ \E call_sid \in CallSids, text \in LedgerUtterances, env \in Environments :
          ProcessLedgerMessage(call_sid, text, env)
    \/ \E call_sid \in CallSids : ClearConversation(call_sid)

SpecLedger == Init /\ [][NextLedger]_vars

(***************************************************************************)
(* Turns for every branch of the cascade: requests to order that name items,*)
(* bare "N wraps", orders, corrections, affirmations and questions          *)
(***************************************************************************)
BranchUtterances ==
    {"i want to order 2 cokes", "2 wraps", "1 coke", "2 chicken shawarma wraps",
     "no 3 soft drinks not 1", "yes", "what's the weather",
     "how much is baba ghanoush", "a large tabbouleh salad", "hello",
     "repeat my order", "tell me about your chef", "that's all"}

BranchAnalysis == [text \in BranchUtterances |-> TextAnalysis(BUSINESS_DATA, MENU_INDEX, text)]

BRANCH_ANALYSIS == IF BranchAnalysis = BranchAnalysis THEN BranchAnalysis ELSE <<>>

ProcessBranchMessage(call_sid, text, env) ==
    HandleMessage(MENU_INDEX, BRANCH_ANALYSIS[text], call_sid, text, env)

NextBranches ==
    \/ \E call_sid \in CallSids, text \in BranchUtterances, env \in Environments :
          ProcessBranchMessage(call_sid, text, env)
    \/ \E call_sid \in CallSids : ClearConversation(call_sid)

SpecBranches == Init /\ [][NextBranches]_vars

(***************************************************************************)
(* The session registry: get_conversation and clear_conversation called    *)
(* for two session ids, between turns that fill the sessions               *)
(***************************************************************************)
RegistrySids == {"CA1", "CA2"}

RegistryUtterances == {"1 coke", "hello", "that's all"}

RegistryAnalysis ==
    [text \in RegistryUtterances |-> TextAnalysis(BUSINESS_DATA, MENU_INDEX, text)]

REGISTRY_ANALYSIS == IF RegistryAnalysis = RegistryAnalysis THEN RegistryAnalysis ELSE <<>>

ProcessRegistryMessage(call_sid, text, env) ==
    HandleMessage(MENU_INDEX, REGISTRY_ANALYSIS[text], call_sid, text, env)

NextRegistry ==
    \/ \E call_sid \in RegistrySids : GetConversation(call_sid)
    \/ \E call_sid \in RegistrySids : ClearConversation(call_sid)
    \/ \E call_sid \in RegistrySids, text \in RegistryUtterances :
          ProcessRegistryMessage(call_sid, text,
                                 [ml |-> "none", llm |-> "general_question",
                                  rag |-> "llm_gpt4o_mini"])

SpecRegistry == Init /\ [][NextRegistry]_vars

(***************************************************************************)
(* The transports: a phone call over the Twilio webhooks, chats over the   *)
(* WebSocket endpoint and chats over POST /api/chat/message                *)
(***************************************************************************)
TransportUtterances == {"1 coke", "hello"}

TransportAnalysis ==
    [text \in TransportUtterances |-> TextAnalysis(BUSINESS_DATA, MENU_INDEX, text)]

TRANSPORT_ANALYSIS ==
    IF TransportAnalysis = TransportAnalysis THEN TransportAnalysis ELSE <<>>

\* the classifier and the collaborator answer
TransportEnvironment == [ml |-> "none", llm |-> "general_question", rag |-> "llm_gpt4o_mini"]

\* process_customer_message(text, session_id, business_id) called for a client
ClientTurn(client, session_id, text) ==
    /\ TurnStep(MENU_INDEX, TRANSPORT_ANALYSIS[text], session_id, text, TransportEnvironment)
    /\ speakers' = Spoke(client, session_id)

\* the state of one client changes
ClientIn(client, state, session_id, notified) ==
    [clients EXCEPT ![client] =
        [state |-> state, session_id |-> session_id, notified |-> notified]]

\* handle_incoming_call: a call comes in under the CallSid Twilio gave it
IncomingCall(client) ==
    /\ clients[client].state = "idle"
    /\ clients' = ClientIn(client, "in-progress", "CA1", FALSE)
    /\ UNCHANGED <<conversations, turns, last, classification, response_cache, cache_use,
                   constructed, handles, registry_call, active_connections, speakers, task_vars, parse>>

\* handle_voice_input with a SpeechResult
VoiceInput(client, text) ==
    /\ clients[client].state = "in-progress"
    /\ ClientTurn(client, clients[client].session_id, text)
    /\ UNCHANGED <<transport_vars, task_vars, parse>>

\* the caller hangs up: the status of the call is completed
HangUp(client) ==
    /\ clients[client].state = "in-progress"
    /\ clients' = ClientIn(client, "completed", clients[client].session_id, FALSE)
    /\ UNCHANGED <<conversations, turns, last, classification, response_cache, cache_use,
                   constructed, handles, registry_call, active_connections, speakers, task_vars, parse>>

\* handle_call_status for the CallStatus of a call that is over
CallStatus(client) ==
    /\ clients[client].state = "completed"
    /\ ~clients[client].notified
    /\ ClearStep(clients[client].session_id)
    /\ clients' = ClientIn(client, "completed", clients[client].session_id, TRUE)
    /\ UNCHANGED <<turns, active_connections, task_vars, parse>>

\* handle_call_status for the CallStatus of a call that goes on: no effect
CallProgress(client) ==
    /\ clients[client].state = "in-progress"
    /\ ~clients[client].notified
    /\ clients' = ClientIn(client, "in-progress", clients[client].session_id, TRUE)
    /\ UNCHANGED <<conversations, turns, last, classification, response_cache, cache_use,
                   constructed, handles, registry_call, active_connections, speakers, task_vars, parse>>

\* the session ids uuid4 draws for the chats: no two draws are alike
WS_SESSION_IDS == {"ws_3f2a9c1b7e4d", "ws_a1b2c3d4e5f6"}

\* websocket_endpoint and manager.connect: the chat gets a session id of its
\* own and its socket is kept under it
WsConnect(client, session_id) ==
    /\ clients[client].state = "idle"
    /\ \A c \in Clients : clients[c].session_id # session_id
    /\ clients' = ClientIn(client, "open", session_id, FALSE)
    /\ active_connections' =
          [s \in DOMAIN active_connections \cup {session_id} |->
              IF s = session_id THEN client ELSE active_connections[s]]
    /\ UNCHANGED <<conversations, turns, last, classification, response_cache, cache_use,
                   constructed, handles, registry_call, speakers, task_vars, parse>>

\* websocket_chat_endpoint receives a message with a text
WsMessage(client, text) ==
    /\ clients[client].state = "open"
    /\ ClientTurn(client, clients[client].session_id, text)
    /\ UNCHANGED <<transport_vars, task_vars, parse>>

\* websocket_chat_endpoint on WebSocketDisconnect: manager.disconnect
WsDisconnect(client) ==
    /\ clients[client].state = "open"
    /\ clients' = ClientIn(client, "closed", clients[client].session_id, FALSE)
    /\ active_connections' =
          [s \in DOMAIN active_connections \ {clients[client].session_id} |->
              active_connections[s]]
    /\ UNCHANGED <<conversations, turns, last, classification, response_cache, cache_use,
                   constructed, handles, registry_call, speakers, task_vars, parse>>

\* the X-Session-ID header a chat over HTTP sends, when it sends one
HeaderOf(client) == "chat_" \o client

\* chat_message: request.headers.get("X-Session-ID", "web_session_default")
SessionIdOf(client, with_header) ==
    IF with_header THEN HeaderOf(client) ELSE "web_session_default"

\* chat_message: POST /api/chat/message
ChatMessage(client, with_header, text) ==
    /\ ClientTurn(client, SessionIdOf(client, with_header), text)
    /\ clients' = ClientIn(client, "open", SessionIdOf(client, with_header), FALSE)
    /\ UNCHANGED <<active_connections, task_vars, parse>>

NextTransports ==
    \/ \E client \in PhoneClients : IncomingCall(client)
    \/ \E client \in PhoneClients, text \in TransportUtterances : VoiceInput(client, text)
    \/ \E client \in PhoneClients : HangUp(client)
    \/ \E client \in PhoneClients : CallStatus(client)
    \/ \E client \in PhoneClients : CallProgress(client)
    \/ \E client \in WsClients, session_id \in WS_SESSION_IDS : WsConnect(client, session_id)
    \/ \E client \in WsClients, text \in TransportUtterances : WsMessage(client, text)
    \/ \E client \in WsClients : WsDisconnect(client)
    \/ \E client \in HttpClients, with_header \in BOOLEAN, text \in TransportUtterances :
          ChatMessage(client, with_header, text)

SpecTransports == Init /\ [][NextTransports]_vars

\* the server handles every status callback it is sent
SpecTransportsFair ==
    SpecTransports /\ \A client \in PhoneClients : WF_vars(CallStatus(client))

(***************************************************************************)
(* Turns under way at once: a turn takes its session and appends the       *)
(* caller's text, may be suspended at await classify_intent, and runs the  *)
(* rest of the handler when it is resumed                                  *)
(***************************************************************************)
\* the object a turn holds: the registered session of its id, or a session
\* that has left the registry
ObjectOf(task) ==
    IF tasks[task].ref = 0 THEN conversations[tasks[task].call_sid]
    ELSE orphans[tasks[task].ref]

\* the suspended turns that hold the registered session of an id
HoldersOf(call_sid) ==
    {task \in Tasks : /\ tasks[task].pc = "awaiting"
                      /\ tasks[task].call_sid = call_sid
                      /\ tasks[task].ref = 0}

\* the registered session of an id leaves the registry: it lives on for the
\* turns that hold it
OrphansAfter(call_sid) ==
    IF call_sid \in DOMAIN conversations /\ HoldersOf(call_sid) # {}
    THEN Append(orphans, conversations[call_sid]) ELSE orphans

TasksAfter(call_sid) ==
    [task \in Tasks |->
        IF call_sid \in DOMAIN conversations /\ task \in HoldersOf(call_sid)
        THEN [tasks[task] EXCEPT !.ref = Len(orphans) + 1] ELSE tasks[task]]

\* process_customer_message up to its await: get_conversation, then
\* add_message("user", text) on the session it returned
BeginTurn(task, call_sid, text) ==
    /\ tasks[task].pc = "idle"
    /\ conversations' =
          Store(call_sid,
                [get_conversation(call_sid) EXCEPT !.messages = add_message(@, "user", text)])
    /\ orphans' = IF Creates(call_sid) THEN OrphansAfter(call_sid) ELSE orphans
    /\ tasks' =
          [t \in Tasks |->
              IF t = task
              THEN [pc |-> "awaiting", call_sid |-> call_sid, text |-> text, ref |-> 0,
                    overlapped |-> \E other \in Tasks : /\ tasks[other].pc = "awaiting"
                                                        /\ tasks[other].call_sid = call_sid,
                    registered |-> call_sid \in DOMAIN conversations,
                    cleared |-> FALSE, added |-> <<>>]
              ELSE IF Creates(call_sid) THEN TasksAfter(call_sid)[t] ELSE tasks[t]]
    /\ constructed' = Constructed(call_sid)
    /\ handles' = Handed(call_sid)
    /\ UNCHANGED <<turns, last, classification, response_cache, cache_use, registry_call,
                   transport_vars, speakers, parse>>

\* the order lines a turn put on its session or raised the quantity of
LinesAdded(before, after) ==
    SelectSeq(after,
              LAMBDA line : \A i \in 1..Len(before) :
                                before[i].name = line.name => before[i].quantity < line.quantity)

\* the result of a turn on a session that holds the caller's text already
Resumed(conv, r) ==
    [r EXCEPT !.conv.messages =
        conv.messages \o SubSeq(@, Len(conv.messages) + 2, Len(@))]

\* process_customer_message from its await on, on the object the turn holds
ResumeTurn(task) ==
    /\ tasks[task].pc = "awaiting"
    /\ \E conv \in {ObjectOf(task)} :
       \E rag \in {SlowPath(response_cache, tasks[task].text, TransportEnvironment.rag)} :
       \E r \in {Resumed(conv,
                          Turn(MENU_INDEX, conv, tasks[task].text,
                               TRANSPORT_ANALYSIS[tasks[task].text],
                               classify_intent_auto(
                                   TransportEnvironment.ml,
                                   TRANSPORT_ANALYSIS[tasks[task].text].rule_intent,
                                   TransportEnvironment.llm).intent,
                               rag))} :
          /\ conversations' = IF tasks[task].ref = 0
                              THEN Store(tasks[task].call_sid, r.conv) ELSE conversations
          /\ orphans' = IF tasks[task].ref = 0 THEN orphans
                        ELSE [orphans EXCEPT ![tasks[task].ref] = r.conv]
          /\ response_cache' = IF r.rag_invoked THEN rag.cache ELSE response_cache
          /\ cache_use' = UsedByTurn(cache_use, rag, r.rag_invoked, tasks[task].text,
                                     tasks[task].call_sid, conv.messages)
          /\ tasks' = [tasks EXCEPT ![task].pc = "done",
                                    ![task].added =
                                        LinesAdded(conv.order_items, r.conv.order_items)]
          /\ last' = [op |-> "message", call_sid |-> tasks[task].call_sid,
                      text |-> tasks[task].text,
                      before |-> conv, response |-> r.response,
                      response_source |-> r.response_source, branch |-> r.branch,
                      finalized |-> r.finalized, rag_invoked |-> r.rag_invoked,
                      raised |-> r.raised, parsed_items |-> r.parsed_items,
                      generation |-> IF r.rag_invoked THEN rag.source ELSE "",
                      cache |-> response_cache]
    /\ turns' = turns + 1
    /\ UNCHANGED <<classification, constructed, handles, registry_call,
                   transport_vars, speakers, parse>>

\* clear_conversation while turns are under way
ClearUnderTurns(call_sid) ==
    /\ ClearStep(call_sid)
    /\ orphans' = OrphansAfter(call_sid)
    /\ tasks' =
          [task \in Tasks |->
              IF tasks[task].pc # "idle" /\ tasks[task].call_sid = call_sid
              THEN [TasksAfter(call_sid)[task] EXCEPT !.cleared = TRUE]
              ELSE tasks[task]]
    /\ UNCHANGED <<turns, transport_vars, parse>>

NextConcurrent ==
    \/ \E task \in Tasks, call_sid \in RegistrySids, text \in TransportUtterances :
          BeginTurn(task, call_sid, text)
    \/ \E task \in Tasks : ResumeTurn(task)
    \/ \E call_sid \in RegistrySids : ClearUnderTurns(call_sid)

SpecConcurrent == Init /\ [][NextConcurrent]_vars

(***************************************************************************)
(* The turns that reach the retrieval and generation collaborator, with    *)
(* the response cache and the passing of its time to live                  *)
(***************************************************************************)
RagUtterances == {"hello", " Hello", "thanks", "1 coke", "that's all", "yes"}

RagEnvironments ==
    {[ml |-> "none", llm |-> "general_question", rag |-> rag] : rag \in RAG_OUTCOMES}

RagAnalysis == [text \in RagUtterances |-> TextAnalysis(BUSINESS_DATA, MENU_INDEX, text)]

RAG_ANALYSIS == IF RagAnalysis = RagAnalysis THEN RagAnalysis ELSE <<>>

ProcessRagMessage(call_sid, text, env) ==
    HandleMessage(MENU_INDEX, RAG_ANALYSIS[text], call_sid, text, env)

\* _cache_ttl_hours pass: every entry of the cache is now older than the time
\* to live
ExpireCache ==
    /\ {i \in 1..Len(response_cache) : response_cache[i].fresh} # {}
    /\ response_cache' =
          [i \in 1..Len(response_cache) |-> [response_cache[i] EXCEPT !.fresh = FALSE]]
    /\ last' = [NoTurn EXCEPT !.op = "expire", !.cache = response_cache]
    /\ UNCHANGED <<cache_use, conversations, turns, classification,
                   constructed, handles, registry_call, transport_vars, speakers, task_vars, parse>>

NextRag ==
    \/ \E call_sid \in CallSids, text \in RagUtterances, env \in RagEnvironments :
          ProcessRagMessage(call_sid, text, env)
    \/ ExpireCache
    \/ \E call_sid \in CallSids : ClearConversation(call_sid)

SpecRag == Init /\ [][NextRag]_vars

(***************************************************************************)
(* generate_response on a cache that is full: sessions ask stored and new  *)
(* queries, under their histories and the context retrieved, and the time  *)
(* to live passes                                                          *)
(***************************************************************************)
CacheSessions == {"CA1", "CA2"}

\* the queries whose responses fill the cache, asked by an earlier session
\* with nothing else in its history, the first of them the longest ago
StoredQuery(i) == "question " \o ToString(i)

StoredHistory(i) == add_message(<<>>, "user", StoredQuery(i))

StoredCache(n) ==
    [i \in 1..n |->
        [key |-> _get_cache_key(StoredQuery(i), context_hash("")),
         response |-> Completion(StoredHistory(i), StoredQuery(i), ""),
         fresh |-> TRUE]]

StoredUse(n) ==
    [i \in 1..n |->
        CacheUse(StoredQuery(i), "", "CA0", StoredHistory(i))]

CacheQueries == {StoredQuery(1), "Question 2 ", "do you cater"}

\* the context text retrieve can return for a query: the collection gained a
\* document about catering at some time
RetrievedContexts(query) ==
    IF _get_cache_key(query, "") = "do you cater:" THEN {"", "catering menu"} ELSE {""}

\* the last messages of a session when it asks a query: the query alone, or
\* the query after a question the completion call answered
CacheHistories(query) ==
    {add_message(<<>>, "user", query),
     add_message(add_message(add_message(<<>>, "user", "tell me about your chef"),
                             "assistant", LLM_REPLY),
                 "user", query)}

InitCache ==
    /\ conversations = <<>>
    /\ constructed = <<>>
    /\ handles = <<>>
    /\ registry_call = NoRegistryCall
    /\ active_connections = <<>>
    /\ clients = NoClients
    /\ speakers = <<>>
    /\ tasks = NoTasks
    /\ orphans = <<>>
    /\ parse = NoParse
    /\ turns = 0
    /\ last = NoTurn
    /\ classification = NoClassification
    /\ response_cache = StoredCache(_cache_max_size)
    /\ cache_use = StoredUse(_cache_max_size)

\* rag.generate_response(query, conversation_history, retrieved_context) called
\* for a session
GenerateResponse(call_sid, query, conversation_history, context_text, llm) ==
    /\ turns < MaxTurns
    /\ \E g \in {generate_response_for(response_cache, query, conversation_history,
                                       context_text, llm)} :
          /\ response_cache' = g.cache
          /\ cache_use' = Used(cache_use, g.cache, g.source, query, context_text,
                               call_sid, conversation_history)
          /\ last' = [op |-> "generate", call_sid |-> call_sid, text |-> query,
                      history |-> conversation_history, context |-> context_text,
                      key |-> _get_cache_key(query, context_hash(context_text)),
                      llm |-> llm, response |-> g.response,
                      response_source |-> g.source, cache |-> response_cache,
                      use |-> cache_use]
    /\ turns' = turns + 1
    /\ UNCHANGED <<conversations, classification, constructed, handles, registry_call,
                   transport_vars, speakers, task_vars, parse>>

NextCache ==
    \/ \E call_sid \in CacheSessions, query \in CacheQueries, llm \in {"llm_gpt4o_mini", "llm_error"} :
       \E conversation_history \in CacheHistories(query),
          context_text \in RetrievedContexts(query) :
          GenerateResponse(call_sid, query, conversation_history, context_text, llm)
    \/ ExpireCache

SpecCache == InitCache /\ [][NextCache]_vars

(***************************************************************************)
(* classify_intent on its own: every text with every behaviour of the      *)
(* trained classifier and of the language model                            *)
(***************************************************************************)
InitClassify ==
    /\ RegistryInit
    /\ turns = 0
    /\ last = NoTurn
    /\ response_cache = <<>>
    /\ classification \in
          {[NoClassification EXCEPT !.text = text, !.ml = ml, !.llm = llm] :
              text \in Utterances, ml \in ML_OUTCOMES, llm \in LLM_OUTCOMES}

ClassifyIntent ==
    /\ ~classification.done
    /\ classification' =
          [classification EXCEPT
              !.done = TRUE,
              !.result = classify_intent(classification.text, classification.ml,
                                         classification.rule, classification.llm)]
    /\ UNCHANGED <<conversations, turns, last, response_cache, cache_use,
                   constructed, handles, registry_call, transport_vars, speakers, task_vars, parse>>

NextClassify == ClassifyIntent

SpecClassify == InitClassify /\ [][NextClassify]_vars

\* classify_intent when the keyword rules, too, may fail
InitClassifyFailures ==
    /\ RegistryInit
    /\ turns = 0
    /\ last = NoTurn
    /\ response_cache = <<>>
    /\ classification \in
          {[NoClassification EXCEPT !.text = text, !.ml = ml, !.rule = rule, !.llm = llm] :
              text \in Utterances, ml \in ML_OUTCOMES, rule \in RULE_OUTCOMES,
              llm \in LLM_OUTCOMES}

SpecClassifyFailures == InitClassifyFailures /\ [][NextClassify]_vars

(***************************************************************************)
(* classify_intent_rule_based on its own                                   *)
(***************************************************************************)
\* what a caller may say in one breath: nothing, or words that hold the
\* keywords of one intent, or none
RulePhrases ==
    {"", "Hello", "What are your hours?", "What's on the menu?", "how much",
     "I'd like to make a reservation", "your address", "thanks", "pizza", "THIS"}

RuleTexts ==
    {str_strip(first \o " " \o second) : first, second \in RulePhrases}

InitRules ==
    /\ RegistryInit
    /\ turns = 0
    /\ last = NoTurn
    /\ response_cache = <<>>
    /\ classification \in {[NoClassification EXCEPT !.text = text] : text \in RuleTexts}

ClassifyRuleBased ==
    /\ ~classification.done
    /\ classification' =
          [classification EXCEPT
              !.done = TRUE,
              !.result = Classified(classify_intent_rule_based(classification.text),
                                    "rule", TRUE, 0)]
    /\ UNCHANGED <<conversations, turns, last, response_cache, cache_use,
                   constructed, handles, registry_call, transport_vars, speakers,
                   task_vars, parse>>

NextRules == ClassifyRuleBased

SpecRules == InitRules /\ [][NextRules]_vars

(***************************************************************************)
(* The extractors on their own: _parse_multiple_items and                  *)
(* _parse_quantity_and_item on a text, over the catalog or over an empty   *)
(* index, and on the item lines of the summary of an order                 *)
(***************************************************************************)
MaxQuantity == 2

MaxLines == 2

\* MENU_INDEX as built from the catalog, or from a catalog that did not load
IndexOf(catalog) ==
    IF catalog = "menu" THEN MENU_INDEX ELSE _build_menu_index(EMPTY_BUSINESS_DATA)

\* a segment "N beef shawarma", "N chicken shawarmas", "N beef shawarma wrap", ...
ShawarmaSegment(quantity, meat, suffix) ==
    ToString(quantity) \o " " \o meat \o " shawarma" \o suffix

ShawarmaSuffixes == {"", "s", " wrap", " sandwich"}

ShawarmaSegments ==
    {ShawarmaSegment(quantity, meat, suffix) :
        quantity \in 1..MaxQuantity, meat \in {"beef", "chicken"},
        suffix \in ShawarmaSuffixes}

ParseTexts ==
    ShawarmaSegments
    \cup {"hello", "1 coke", "2 cokes and 1 fries", "1 baba ghanoush",
          "a chicken shawarma wrap", "1 beef and 2 chicken shawarma",
          "2 sodas, 1 baba ghanoush", "that's all"}

\* the order lines of the catalog, in every quantity
CatalogLines ==
    {OrderLine(MENU_INDEX[i].name, quantity, MENU_INDEX[i].price) :
        i \in 1..Len(MENU_INDEX), quantity \in 1..MaxQuantity}

\* the orders of at most MaxLines lines, no item twice
ParseOrders ==
    {order_items \in UNION {[1..n -> CatalogLines] : n \in 1..MaxLines} :
        \A i, j \in 1..Len(order_items) :
            i # j => order_items[i].name # order_items[j].name}

\* the f"{items_text}" of a summary: what stands between its fixed texts
ItemLines(summary) ==
    With(Len("So far I have: ") + 1, LAMBDA from :
        SubSeq(summary, from,
               Min({i \in from..Len(summary) :
                       StartsAt(summary, i, ". The estimated total is ")}) - 1))

InitParse ==
    /\ conversations = <<>>
    /\ constructed = <<>>
    /\ handles = <<>>
    /\ registry_call = NoRegistryCall
    /\ active_connections = <<>>
    /\ clients = NoClients
    /\ speakers = <<>>
    /\ tasks = NoTasks
    /\ orphans = <<>>
    /\ turns = 0
    /\ last = NoTurn
    /\ classification = NoClassification
    /\ response_cache = <<>>
    /\ cache_use = <<>>
    /\ parse \in
          {[NoParse EXCEPT !.catalog = catalog, !.text = text] :
              catalog \in {"menu", "empty"}, text \in ParseTexts}
          \cup {[NoParse EXCEPT !.order_items = order_items, !.rendered = FALSE] :
                   order_items \in ParseOrders}

\* _summarize_order on the order, and the item lines of what it returns
SummarizeOrder ==
    /\ ~parse.rendered
    /\ parse' = [parse EXCEPT !.rendered = TRUE,
                              !.text = ItemLines(_summarize_order(parse.order_items))]
    /\ UNCHANGED <<conversations, turns, last, classification, response_cache, cache_use,
                   constructed, handles, registry_call, transport_vars, speakers,
                   task_vars>>

ParseMultipleItems ==
    /\ parse.rendered /\ ~parse.parsed_multiple
    /\ parse' = [parse EXCEPT !.parsed_multiple = TRUE,
                              !.multiple = _parse_multiple_items(IndexOf(parse.catalog),
                                                                 parse.text)]
    /\ UNCHANGED <<conversations, turns, last, classification, response_cache, cache_use,
                   constructed, handles, registry_call, transport_vars, speakers,
                   task_vars>>

ParseQuantityAndItem ==
    /\ parse.rendered /\ ~parse.parsed_single
    /\ parse' = [parse EXCEPT !.parsed_single = TRUE,
                              !.single = _parse_quantity_and_item(IndexOf(parse.catalog),
                                                                  parse.text)]
    /\ UNCHANGED <<conversations, turns, last, classification, response_cache, cache_use,
                   constructed, handles, registry_call, transport_vars, speakers,
                   task_vars>>

NextParse == SummarizeOrder \/ ParseMultipleItems \/ ParseQuantityAndItem

SpecParse == InitParse /\ [][NextParse]_vars

(***************************************************************************)
(* Properties of the order ledger and of the turn cascade                  *)
(***************************************************************************)
\* the session of the last operation, as that operation left it
SessionAfter ==
    IF last.call_sid \in DOMAIN conversations THEN conversations[last.call_sid]
    ELSE ConversationState

\* the quantity of the line of that name, 0 when the order has none
QuantityOf(order_items, name) ==
    LET at == {i \in 1..Len(order_items) : order_items[i].name = name}
    IN IF at = {} THEN 0 ELSE order_items[Min(at)].quantity

\* the sum of the quantities parsed for that name
RECURSIVE ParsedQuantity(_, _)
ParsedQuantity(parsed_items, name) ==
    IF parsed_items = <<>> THEN 0
    ELSE (IF parsed_items[1].name = name THEN parsed_items[1].quantity ELSE 0)
         + ParsedQuantity(Tail(parsed_items), name)

\* the quantity of the last item parsed for that name
LastParsedQuantity(parsed_items, name) ==
    LET at == {i \in 1..Len(parsed_items) : parsed_items[i].name = name}
    IN parsed_items[CHOOSE i \in at : \A j \in at : j <= i].quantity

\* the law of step 5 for a given list of correction words: a turn without
\* them adds the parsed quantities to the line, a turn with them leaves the
\* line at the quantity it parsed
MergeReplaceLawFor(words) ==
    (last.op = "message" /\ last.branch = "extraction") =>
        \A k \in 1..Len(last.parsed_items) :
            LET name == last.parsed_items[k].name
            IN QuantityOf(SessionAfter.order_items, name) =
                  IF any_in(words, str_lower(last.text))
                  THEN LastParsedQuantity(last.parsed_items, name)
                  ELSE QuantityOf(last.before.order_items, name)
                       + ParsedQuantity(last.parsed_items, name)

\* C1 (amended): after a turn resolved by order-item extraction, the line of
\* each parsed item holds its previous quantity plus the quantities parsed
\* for it, unless the text contains "not", "wrong", "incorrect" or
\* "should be": then it holds the quantity parsed in that turn.
MergeReplaceLaw == MergeReplaceLawFor(<<"not", "wrong", "incorrect", "should be">>)

\* C1 as stated: the same law with "not", "wrong" and "should be" as the only
\* correction words.
MergeReplaceLawAsStated == MergeReplaceLawFor(<<"not", "wrong", "should be">>)

\* a correction turn has replaced the quantity of a line that existed, and
\* the sum would have been another quantity
CorrectionReplacedLine ==
    /\ last.op = "message" /\ last.branch = "extraction"
    /\ any_in(<<"not", "wrong", "should be">>, str_lower(last.text))
    /\ \E k \in 1..Len(last.parsed_items) :
          /\ QuantityOf(last.before.order_items, last.parsed_items[k].name) > 0
          /\ QuantityOf(SessionAfter.order_items, last.parsed_items[k].name)
                = last.parsed_items[k].quantity

\* C2: in every session every order line has
\* total_price = quantity * unit_price.
LineTotalsConsistent ==
    \A c \in DOMAIN conversations :
        \A i \in 1..Len(conversations[c].order_items) :
            conversations[c].order_items[i].total_price
              = conversations[c].order_items[i].quantity
                * conversations[c].order_items[i].unit_price

\* a turn has changed the quantity of a line that was on the order
LineQuantityChanged ==
    /\ last.op = "message"
    /\ \E i \in 1..Len(last.before.order_items) :
          /\ i <= Len(SessionAfter.order_items)
          /\ SessionAfter.order_items[i].name = last.before.order_items[i].name
          /\ SessionAfter.order_items[i].quantity # last.before.order_items[i].quantity

\* C3: no two lines of an order have the same name, and a turn of step 5
\* appends one line per parsed name that was not on the order, and no other.
UniqueLineNames ==
    /\ \A c \in DOMAIN conversations :
          \A i, j \in 1..Len(conversations[c].order_items) :
              conversations[c].order_items[i].name = conversations[c].order_items[j].name
                => i = j
    /\ (last.op = "message" /\ last.branch = "extraction") =>
          Len(SessionAfter.order_items)
            = Len(last.before.order_items)
              + Cardinality({last.parsed_items[k].name : k \in 1..Len(last.parsed_items)}
                            \ {last.before.order_items[i].name :
                                  i \in 1..Len(last.before.order_items)})

\* a turn has parsed the same item twice, or an item that was on the order
ParsedNameAlreadyPresent ==
    /\ last.op = "message" /\ last.branch = "extraction"
    /\ \/ \E k, m \in 1..Len(last.parsed_items) :
             k # m /\ last.parsed_items[k].name = last.parsed_items[m].name
       \/ \E k \in 1..Len(last.parsed_items) :
             QuantityOf(last.before.order_items, last.parsed_items[k].name) > 0

\* C4: a turn whose text contains a session-ending phrase while the order
\* has a line sets kitchen_ticket in that turn and returns the
\* order-confirmed closing script, whichever branch answered first.
EndPhraseFinalizes ==
    (/\ last.op = "message" /\ ~last.raised
     /\ any_in(end_phrases, str_lower(last.text))
     /\ SessionAfter.order_items # <<>>) =>
        /\ SessionAfter.kitchen_ticket # <<>>
        /\ last.response = OrderConfirmed(SessionAfter.order_items)

\* C5: the ticket a finalization sets has status "pending", one entry per
\* order line, in order, with the line's name, quantity and total_price, and
\* a total that is the sum of the lines' total_price.
TicketMatchesOrder ==
    (last.op = "message" /\ last.finalized) =>
        /\ SessionAfter.kitchen_ticket # <<>>
        /\ LET ticket == SessionAfter.kitchen_ticket[1]
               order_items == SessionAfter.order_items
           IN /\ ticket.status = "pending"
              /\ Len(ticket.items) = Len(order_items)
              /\ \A i \in 1..Len(order_items) :
                    /\ ticket.items[i].name = order_items[i].name
                    /\ ticket.items[i].quantity = order_items[i].quantity
                    /\ ticket.items[i].line_total = order_items[i].total_price
              /\ ticket.total = SumTotals(order_items)

\* a finalization has set the ticket of an order of several lines
TicketOfSeveralLines ==
    /\ last.op = "message" /\ last.finalized
    /\ Len(SessionAfter.order_items) >= 2
    /\ SessionAfter.kitchen_ticket # last.before.kitchen_ticket

\* an utterance "no N <item>" or "no N <item> not M": N and the item it names
ShorthandRequest(text_lower) ==
    LET d == SpanEnd(text_lower, 3, SpaceSet)
        e == SpanEnd(text_lower, d, DigitSet)
        f == SpanEnd(text_lower, e, SpaceSet)
        tails == {h \in f..Len(text_lower) : NotTail(text_lower, h + 1)}
    IN IF StartsAt(text_lower, 1, "no") /\ d > 3 /\ e > d /\ f > e /\ f <= Len(text_lower)
       THEN <<[qty |-> str_int(SubSeq(text_lower, d, e - 1)),
               item |-> SubSeq(text_lower, f,
                               IF tails = {} THEN Len(text_lower) ELSE Min(tails))]>>
       ELSE <<>>

\* C6: an utterance "no N <item> [not M]" whose item names a line of the
\* order sets that line's quantity to N and recomputes its total, leaves
\* every other line as it was, appends no line, and the turn ends with the
\* order summary.
ShorthandCorrectsNamedLine ==
    last.op = "message" =>
        \A i \in 1..Len(last.before.order_items) :
            (/\ ShorthandRequest(str_lower(last.text)) # <<>>
             /\ ShorthandRequest(str_lower(last.text))[1].item
                  = str_lower(last.before.order_items[i].name)) =>
                /\ SessionAfter.order_items
                     = [last.before.order_items EXCEPT
                          ![i].quantity = ShorthandRequest(str_lower(last.text))[1].qty,
                          ![i].total_price = ShorthandRequest(str_lower(last.text))[1].qty
                                             * last.before.order_items[i].unit_price]
                /\ last.response = _summarize_order(SessionAfter.order_items) \o ANYTHING_ELSE

\* the message that offers the catalog entry: its price and the question
PriceOffer(menu_item) ==
    menu_item.name \o " costs " \o Money(menu_item.price)
    \o ".  Would you like to add this to your order?"

\* C7: after a message that offered an item, a short affirmation adds one
\* unit of that item and nothing else; after an order summary, which offers
\* no item, a short affirmation leaves the order as it was.
AffirmationAddsOnlyOfferedItem ==
    (last.op = "message" /\ is_confirmation(str_lower(last.text))) =>
        /\ \A k \in 1..Len(MENU_INDEX) :
              LastAssistantMessage(last.before.messages) = PriceOffer(MENU_INDEX[k])
                => /\ QuantityOf(SessionAfter.order_items, MENU_INDEX[k].name)
                        = QuantityOf(last.before.order_items, MENU_INDEX[k].name) + 1
                   /\ \A i \in 1..Len(last.before.order_items) :
                         last.before.order_items[i].name # MENU_INDEX[k].name
                           => SessionAfter.order_items[i] = last.before.order_items[i]
        /\ (/\ last.before.order_items # <<>>
            /\ LastAssistantMessage(last.before.messages)
                 = _summarize_order(last.before.order_items))
              => SessionAfter.order_items = last.before.order_items

\* C8: a turn whose text is a phrase of the repeat set leaves order_items as
\* it was and returns the rendering of that order, the fixed message when
\* the order has no line.
ReadBackIsIdempotent ==
    (/\ last.op = "message"
     /\ \E j \in 1..Len(repeat_phrases) : str_lower(last.text) = repeat_phrases[j]) =>
        /\ SessionAfter.order_items = last.before.order_items
        /\ last.response =
              IF last.before.order_items = <<>>
              THEN "I don't have an order on file yet for this call."
              ELSE "So far I have: " \o str_join(", ", OrderParts(last.before.order_items))
                   \o ". The estimated total is "
                   \o Money(SumTotals(last.before.order_items))
                   \o " before tax and fees. "
                   \o "Would you like to add anything else or is that everything?"

\* the order was read back twice in a row
ReadBackRepeated ==
    /\ last.op = "message"
    /\ \E j \in 1..Len(repeat_phrases) : str_lower(last.text) = repeat_phrases[j]
    /\ Len(last.before.messages) >= 2
    /\ \E j \in 1..Len(repeat_phrases) :
          last.before.messages[Len(last.before.messages) - 1]
            = [role |-> "user", content |-> repeat_phrases[j]]

\* C9: the collaborator is invoked only in a turn in which no earlier branch
\* of the cascade produced a response, and the turn "what's the weather" is
\* answered by the fixed redirect with provenance "template_unrelated"
\* without invoking it.
RagIsLastResort ==
    last.op = "message" =>
        /\ last.rag_invoked =>
              /\ last.branch = "rag"
              /\ ~ANALYSIS[last.text].repeat
              /\ ~ANALYSIS[last.text].order_request
              /\ ANALYSIS[last.text].parsed_items = <<>>
              /\ ANALYSIS[last.text].qty_match = <<>>
              /\ ~ANALYSIS[last.text].unrelated
              /\ ANALYSIS[last.text].direct = ""
              /\ ANALYSIS[last.text].followup_match = ""
              /\ ANALYSIS[last.text].intent_response[SessionAfter.current_intent] = ""
        /\ last.text = "what's the weather" =>
              /\ last.response =
                    "I'm here to help with questions about Cedar Garden Lebanese Kitchen - our menu, hours, reservations, orders, and location. I can't help with general questions like weather, news, or entertainment. What can I help you with regarding our restaurant?"
              /\ last.response_source = "template_unrelated"
              /\ ~last.rag_invoked

\* the unrelated-topic filter has answered a turn of a session with an order
UnrelatedTurnAnswered ==
    /\ last.op = "message" /\ last.text = "what's the weather"
    /\ last.branch = "unrelated"
    /\ last.before.order_items # <<>>

\* C10: classify_intent returns the trained classifier's prediction when it
\* predicts, consulting neither the rules nor the language model; otherwise
\* the keyword-rule result when it is not general_question; otherwise the
\* language model's result, from its only call.
StrictClassifierFallback ==
    classification.done =>
        LET rule_intent == classify_intent_rule_based(classification.text)
            result == classification.result
        IN /\ classification.ml \in Intent =>
                 /\ result.intent = classification.ml
                 /\ ~result.rule_consulted /\ result.llm_calls = 0
           /\ (classification.ml \notin Intent /\ rule_intent # "general_question") =>
                 result.intent = rule_intent /\ result.llm_calls = 0
           /\ (classification.ml \notin Intent /\ rule_intent = "general_question") =>
                 /\ result.intent = IF classification.llm \in Intent
                                    THEN classification.llm ELSE "unknown"
                 /\ result.llm_calls = 1

\* a classification has fallen through both earlier tiers to the language
\* model, which answered with an intent
FellThroughToLanguageModel ==
    /\ classification.done
    /\ classification.ml = "predict_error"
    /\ classify_intent_rule_based(classification.text) = "general_question"
    /\ classification.llm = "greeting"
    /\ classification.result.intent = "greeting"
    /\ classification.result.llm_calls = 1

\* C11: classify_intent never raises: when the trained classifier fails the
\* keyword rules answer, when the rules fail or find nothing the language
\* model tier answers, and when that tier fails the result is unknown.
ClassifierNeverRaises ==
    classification.done =>
        LET result == classification.result
            ml_failed == classification.ml \in {"load_error", "predict_error"}
            rule_failed == classification.rule = "raises"
            llm_failed == classification.llm \notin Intent
        IN /\ ~result.raised
           /\ result.intent \in Intent
           /\ (ml_failed /\ ~rule_failed) => result.rule_consulted
           /\ (ml_failed /\ ~rule_failed
                   /\ classify_intent_rule_based(classification.text) # "general_question") =>
                 /\ result.tier = "rule"
                 /\ result.intent = classify_intent_rule_based(classification.text)
           /\ (ml_failed /\ rule_failed) => (result.tier = "llm" /\ result.llm_calls = 1)
           /\ (result.tier = "llm" /\ llm_failed) => result.intent = "unknown"

\* every tier has failed in one call: the trained classifier raised, the rules
\* raised and the language model call raised, and the call returned unknown
EveryTierFailed ==
    /\ classification.done
    /\ classification.ml = "predict_error"
    /\ classification.rule = "raises"
    /\ classification.llm = "error"
    /\ classification.result.tier = "llm"
    /\ classification.result.intent = "unknown"
    /\ ~classification.result.raised

\* C12: process_customer_message always returns a response, and a turn in
\* which a step raised returns the technical-difficulties apology.
HandlerNeverRaises ==
    last.op = "message" =>
        /\ last.response # ""
        /\ last.raised =>
              last.response = "I apologize, but I'm having some technical difficulties. "
                              \o "Please try again or call back later."

\* a parser raised on a price that is no number, and the turn was answered
ParserRaisedAndAnswered ==
    /\ last.op = "message"
    /\ last.text = "order 2 lamb chops"
    /\ last.raised
    /\ last.branch = "parse"
    /\ last.response = TECHNICAL_DIFFICULTIES

\* C13: a turn that ends in the exception handler leaves order_items and
\* kitchen_ticket as they were before the turn.
NoPartialMutationOnFailure ==
    (last.op = "message" /\ last.raised) =>
        /\ SessionAfter.order_items = last.before.order_items
        /\ SessionAfter.kitchen_ticket = last.before.kitchen_ticket

\* the completion call of generate_response failed in the last turn
GenerationFailed == last.op = "message" /\ last.generation = "llm_error"

\* the history of the last turn's session ends with the caller's text and
\* that reply
HistoryEndsWith(reply) ==
    SessionAfter.messages =
        add_message(add_message(last.before.messages, "user", last.text),
                    "assistant", reply)

\* the failed turn did not raise, left the order as it was and left no entry
\* for its query, nor any entry holding the apology, in the response cache
FailureLeftNoTrace ==
    /\ ~last.raised
    /\ SessionAfter.order_items = last.before.order_items
    /\ CachePositions(response_cache, _get_cache_key(last.text, context_hash(""))) = {}
    /\ \A i \in 1..Len(response_cache) : response_cache[i].response # LLM_ERROR_REPLY

\* the failed turn returned the apology of generate_response
ApologyReturned ==
    /\ last.response = "I apologize, but I'm having trouble processing your request "
                        \o "right now. Please try again or call back later."
    /\ last.response_source = "llm_error"
    /\ HistoryEndsWith(last.response)

\* the closing script replaced the reply of the turn, in the history too
ClosingReturned ==
    /\ last.response = IF last.before.order_items # <<>>
                       THEN OrderConfirmed(last.before.order_items) ELSE ORDER_CLOSING
    /\ last.response_source = IF last.before.order_items # <<>>
                              THEN "template_order_finalized"
                              ELSE "template_order_closing"
    /\ HistoryEndsWith(last.response)

\* C14 as stated: a turn whose completion call failed returns the apology of
\* generate_response with provenance llm_error, appends it to the history as
\* the assistant message, leaves order_items unchanged and stores nothing in
\* the response cache.
GenerationFailureSurfacesApology ==
    GenerationFailed => (FailureLeftNoTrace /\ ApologyReturned)

\* C14 (amended): a turn whose completion call failed completes without
\* raising, leaves order_items unchanged and stores nothing in the response
\* cache; it returns the apology with provenance llm_error and appends it to
\* the history, unless its text holds an end phrase: then the closing script
\* is what it returns and what the history holds.
GenerationFailureCompletesTurn ==
    GenerationFailed =>
        /\ FailureLeftNoTrace
        /\ IF RAG_ANALYSIS[last.text].done THEN ClosingReturned ELSE ApologyReturned

\* the completion call failed in a turn that returned the apology, on a
\* query whose cached response had outlived its time to live
GenerationFailedOnStaleEntry ==
    /\ GenerationFailed
    /\ last.response = LLM_ERROR_REPLY
    /\ \E i \in 1..Len(last.cache) :
          last.cache[i].key = _get_cache_key(last.text, context_hash("")) /\ ~last.cache[i].fresh

\* C15: every line of every session's order has a quantity of at least 1.
QuantitiesPositive ==
    \A call_sid \in DOMAIN conversations :
        \A i \in 1..Len(conversations[call_sid].order_items) :
            conversations[call_sid].order_items[i].quantity >= 1

\* C16 as stated: once a session has a kitchen ticket, no later turn of the
\* session changes it.
TicketImmutable ==
    (last.op = "message" /\ last.before.kitchen_ticket # <<>>) =>
        SessionAfter.kitchen_ticket = last.before.kitchen_ticket

\* C16 (amended): once a session has a kitchen ticket, a later turn leaves it
\* as it was, whatever the turn does to order_items, unless the text of the
\* turn holds an end phrase: such a turn may replace the ticket, and then by
\* the snapshot of the order as the turn left it.
TicketChangesOnlyOnEndPhrase ==
    (last.op = "message" /\ last.before.kitchen_ticket # <<>>) =>
        \/ SessionAfter.kitchen_ticket = last.before.kitchen_ticket
        \/ /\ \E j \in 1..Len(end_phrases) : str_in(end_phrases[j], str_lower(last.text))
           /\ SessionAfter.kitchen_ticket = <<KitchenTicket(SessionAfter.order_items)>>

\* a turn without an end phrase changed the order of a session that has a
\* ticket, and the ticket stayed
OrderChangedUnderTicket ==
    /\ last.op = "message"
    /\ last.before.kitchen_ticket # <<>>
    /\ ~LEDGER_ANALYSIS[last.text].done
    /\ SessionAfter.order_items # last.before.order_items
    /\ SessionAfter.kitchen_ticket = last.before.kitchen_ticket

\* C17: get_conversation returns the object its previous call for the same
\* session id returned, with what the session has accumulated, unless
\* clear_conversation was called for that id in between: then it returns a
\* new object with no messages, no order lines and no ticket.
\* clear_conversation of an id that is not in the registry changes nothing.
RegistryGetOrCreate ==
    /\ registry_call.op = "get" =>
          LET call_sid == registry_call.call_sid
              handle == registry_call.handle
          IN /\ (handle # <<>> /\ ~handle[1].cleared) =>
                    /\ call_sid \in DOMAIN registry_call.before
                    /\ registry_call.generation = handle[1].generation
                    /\ registry_call.state = registry_call.before[call_sid]
             /\ (handle # <<>> /\ handle[1].cleared) =>
                    /\ registry_call.generation > handle[1].generation
                    /\ registry_call.state.messages = <<>>
                    /\ registry_call.state.order_items = <<>>
                    /\ registry_call.state.kitchen_ticket = <<>>
             /\ registry_call.after[call_sid] = registry_call.state
    /\ (registry_call.op = "clear"
            /\ registry_call.call_sid \notin DOMAIN registry_call.before) =>
          registry_call.after = registry_call.before

\* get_conversation has returned a second, empty object for a session id
\* whose first object had an order and was cleared
GotFreshAfterClear ==
    /\ registry_call.op = "get"
    /\ registry_call.handle # <<>>
    /\ registry_call.handle[1].cleared
    /\ registry_call.generation = 2
    /\ registry_call.state = ConversationState
    /\ last.op = "clear" /\ last.call_sid = registry_call.call_sid
    /\ last.before.order_items # <<>>

\* C18: once a phone call is completed, and once a chat over the WebSocket
\* endpoint has disconnected, the registry eventually holds no entry for the
\* session id of that call or chat.
SessionsEventuallyDestroyed ==
    \A client \in PhoneClients \cup WsClients :
        (clients[client].state \in {"completed", "closed"})
            ~> (clients[client].session_id \notin DOMAIN conversations)

\* C20: no session in the registry has taken the turns of two distinct chat
\* clients.
NoSharedConversation ==
    \A session_id \in DOMAIN conversations :
        Cardinality(SpeakersOf(session_id) \cap (WsClients \cup HttpClients)) <= 1

\* the user messages of a session that hold a text
UserMessages(messages, text) ==
    {i \in 1..Len(messages) : messages[i] = [role |-> "user", content |-> text]}

\* two turns of one session id are over, the id was not registered when the
\* first began and clear_conversation was not called for it since
TwoTurnsOver(task, other) ==
    /\ task # other
    /\ tasks[task].pc = "done" /\ tasks[other].pc = "done"
    /\ tasks[task].call_sid = tasks[other].call_sid
    /\ ~tasks[task].registered \/ ~tasks[other].registered
    /\ ~tasks[task].cleared /\ ~tasks[other].cleared

\* C19: after two turns of one, not yet registered session id, begun and
\* resumed in any order with no clear_conversation in between, the session
\* registered under the id holds the user message of each turn and, for every
\* order line either turn added or raised, a line of at least that quantity.
BothTurnsOnOneSession ==
    \A task, other \in Tasks :
        TwoTurnsOver(task, other) =>
            /\ tasks[task].call_sid \in DOMAIN conversations
            /\ LET conv == conversations[tasks[task].call_sid]
               IN /\ UserMessages(conv.messages, tasks[task].text) # {}
                  /\ Cardinality(UserMessages(conv.messages, tasks[task].text)) =
                        Cardinality({t \in {task, other} : tasks[t].text = tasks[task].text})
                  /\ \A i \in 1..Len(tasks[task].added) :
                        QuantityOf(conv.order_items, tasks[task].added[i].name)
                            >= tasks[task].added[i].quantity

\* the second turn began while the first was suspended, both added a Coke,
\* and the one session holds both
TurnsOverlappedOnOneSession ==
    /\ TwoTurnsOver("turn1", "turn2")
    /\ tasks["turn2"].overlapped
    /\ tasks["turn1"].added # <<>> /\ tasks["turn2"].added # <<>>
    /\ QuantityOf(conversations[tasks["turn1"].call_sid].order_items, "Soft Drinks") = 2
    /\ last.text = "1 coke" /\ last.before.order_items # <<>>
    /\ Cardinality(UserMessages(conversations[tasks["turn1"].call_sid].messages, "1 coke")) = 2

\* some line holds that item in that quantity; no line holds that item
LineOf(items, name, quantity) ==
    \E i \in 1..Len(items) : items[i].name = name /\ items[i].quantity = quantity

NoLineOf(items, name) == \A i \in 1..Len(items) : items[i].name # name

\* a shawarma segment of that meat went through _parse_multiple_items over
\* the catalog
ShawarmaSegmentParsed(quantity, meat) ==
    /\ parse.parsed_multiple /\ parse.catalog = "menu"
    /\ \E suffix \in ShawarmaSuffixes :
          parse.text = ShawarmaSegment(quantity, meat, suffix)

\* C21: over a catalog that holds both wraps, _parse_multiple_items on a
\* segment "N beef shawarma[s| wrap| sandwich]" gives a Beef Shawarma Wrap
\* line of quantity N and no Chicken Shawarma Wrap line, and on the chicken
\* segments a Chicken Shawarma Wrap line of quantity N and no beef line.
ShawarmaNeverCrossMatches ==
    \A quantity \in 1..MaxQuantity :
        /\ ShawarmaSegmentParsed(quantity, "beef") =>
              /\ LineOf(parse.multiple, "Beef Shawarma Wrap", quantity)
              /\ NoLineOf(parse.multiple, "Chicken Shawarma Wrap")
        /\ ShawarmaSegmentParsed(quantity, "chicken") =>
              /\ LineOf(parse.multiple, "Chicken Shawarma Wrap", quantity)
              /\ NoLineOf(parse.multiple, "Beef Shawarma Wrap")

\* the (name, quantity) pairs of the lines
Pairs(items) == {<<items[i].name, items[i].quantity>> : i \in 1..Len(items)}

\* the item lines of the summary of an order went through
\* _parse_multiple_items
SummaryParsed == parse.order_items # <<>> /\ parse.parsed_multiple

\* C22: for an order of catalog items, _parse_multiple_items on the item
\* lines that _summarize_order renders gives lines with the same set of
\* (name, quantity) pairs as the order.
SummaryRoundTrip ==
    SummaryParsed => Pairs(parse.multiple) = Pairs(parse.order_items)

\* C23: over an empty MENU_INDEX _parse_quantity_and_item returns no item
\* and _parse_multiple_items returns no lines, whatever the text.
EmptyIndexMatchesNothing ==
    parse.catalog = "empty" =>
        /\ parse.parsed_single => parse.single = <<>>
        /\ parse.parsed_multiple => parse.multiple = <<>>

\* the intents of the keyword table, in its order
RULE_ORDER ==
    <<"greeting", "hours", "menu", "pricing", "reservation", "direction", "goodbye">>

\* some keyword of the k-th intent of the table is a substring of the
\* lowercased text
KeywordOccurs(k, text) ==
    \E j \in 1..Len(INTENT_KEYWORDS[k][2]) :
        str_in(INTENT_KEYWORDS[k][2][j], str_lower(text))

\* C24: classify_intent_rule_based returns the first intent, in the order
\* greeting, hours, menu, pricing, reservation, direction, goodbye, one of
\* whose keywords is a substring of the lowercased text, and general_question
\* exactly when no keyword of any intent is; a text that holds keywords of
\* one intent only is classified as that intent.
KeywordRulesFirstMatch ==
    classification.done =>
        /\ [k \in 1..Len(INTENT_KEYWORDS) |-> INTENT_KEYWORDS[k][1]] = RULE_ORDER
        /\ \A k \in 1..Len(RULE_ORDER) :
              classification.result.intent = RULE_ORDER[k] <=>
                  /\ KeywordOccurs(k, classification.text)
                  /\ \A j \in 1..(k - 1) : ~KeywordOccurs(j, classification.text)
        /\ classification.result.intent = "general_question" <=>
              \A k \in 1..Len(RULE_ORDER) : ~KeywordOccurs(k, classification.text)
        /\ \A k \in 1..Len(RULE_ORDER) :
              /\ KeywordOccurs(k, classification.text)
              /\ \A j \in 1..Len(RULE_ORDER) :
                    j # k => ~KeywordOccurs(j, classification.text)
              => classification.result.intent = RULE_ORDER[k]

\* a text with keywords of two intents was classified as the earlier one,
\* here hours before reservation
EarlierIntentWon ==
    /\ classification.done
    /\ KeywordOccurs(2, classification.text) /\ KeywordOccurs(5, classification.text)
    /\ ~KeywordOccurs(1, classification.text)
    /\ classification.result.intent = "hours"

\* the branches of the cascade that may change the order
MUTATING_BRANCHES == {"confirmation", "correction", "extraction"}

\* C25: a turn changes order_items only if the pending-confirmation branch,
\* the quantity-correction shorthand or the item extraction resolved it; a
\* turn resolved by the order-request branch, by the bare "N wraps" branch or
\* by the unrelated, facts, mappings, intent or generation branches leaves
\* order_items as it was.
OnlyThreeBranchesMutate ==
    last.op = "message" /\ last.branch \notin MUTATING_BRANCHES =>
        SessionAfter.order_items = last.before.order_items

\* a request to order that names items and a quantity was resolved by the
\* order-request branch on a session with an order
OrderRequestNamedItems ==
    /\ last.op = "message" /\ last.branch = "order_request"
    /\ last.text = "i want to order 2 cokes"
    /\ BRANCH_ANALYSIS[last.text].parsed_items # <<>>
    /\ last.before.order_items # <<>>
    /\ SessionAfter.order_items = last.before.order_items

\* the names of the lines, in order
LineNames(order_items) == [i \in 1..Len(order_items) |-> order_items[i].name]

IsPrefix(short, long) ==
    Len(short) <= Len(long) /\ SubSeq(long, 1, Len(short)) = short

\* C26: for every turn, the names of the lines of order_items before the turn
\* are a prefix of the names after it: no line is removed or moved, and a new
\* line goes to the end.
OrderLinesKeepFirstAddedOrder ==
    last.op = "message" =>
        IsPrefix(LineNames(last.before.order_items), LineNames(SessionAfter.order_items))

\* a turn changed the quantity of a line of the order and put a new line
\* after the lines the order had
MergedAndAppended ==
    /\ last.op = "message"
    /\ last.before.order_items # <<>>
    /\ Len(SessionAfter.order_items) > Len(last.before.order_items)
    /\ \E i \in 1..Len(last.before.order_items) :
          /\ SessionAfter.order_items[i].name = last.before.order_items[i].name
          /\ SessionAfter.order_items[i].quantity # last.before.order_items[i].quantity

\* the roles of a history that began with the caller and in which every
\* message of the caller was answered once
Alternates(messages) ==
    /\ Len(messages) % 2 = 0
    /\ \A i \in 1..Len(messages) :
          messages[i].role = IF i % 2 = 1 THEN "user" ELSE "assistant"

\* the last operation was a turn that returned without the handler of
\* process_customer_message catching an exception
TurnReturned == last.op = "message" /\ ~last.raised

\* C27: a turn that returns normally extends the messages of its session by
\* two entries, the caller's text and then one assistant message; the text
\* returned is the content of the last message, also when the closing
\* override replaced the response; so a history that alternated between the
\* caller and the assistant before the turn alternates after it.
HistoryBookkeeping ==
    TurnReturned =>
        /\ Len(SessionAfter.messages) = Len(last.before.messages) + 2
        /\ SubSeq(SessionAfter.messages, 1, Len(last.before.messages)) = last.before.messages
        /\ SessionAfter.messages[Len(SessionAfter.messages) - 1] =
              [role |-> "user", content |-> last.text]
        /\ SessionAfter.messages[Len(SessionAfter.messages)] =
              [role |-> "assistant", content |-> last.response]
        /\ Alternates(last.before.messages) => Alternates(SessionAfter.messages)

\* the closing override replaced the response of a turn on a session with a
\* history, and the history ends with the text it returned
OverrideReplacedResponse ==
    /\ TurnReturned /\ last.finalized
    /\ last.before.messages # <<>>
    /\ last.response = OrderConfirmed(SessionAfter.order_items)
    /\ SessionAfter.messages[Len(SessionAfter.messages)].content = last.response


(***************************************************************************)
(* Properties of the response cache                                        *)
(***************************************************************************)
\* the last operation was a call of generate_response
Generating == last.op = "generate"

\* the keys that left the cache in the last call
KeysGone == CacheKeys(last.cache) \ CacheKeys(response_cache)

\* the last call stored a response under a key the cache did not hold
StoredNewKey ==
    /\ Generating
    /\ last.response_source = "llm_gpt4o_mini"
    /\ last.key \notin CacheKeys(last.cache)

\* C28: the response cache never holds more than _cache_max_size entries; a
\* call of generate_response that stores a new key in a full cache removes
\* exactly the entry least recently stored or read, and no other call removes
\* an entry but the one of its own key
CacheBoundedEvictingLeastRecent ==
    /\ Len(response_cache) <= _cache_max_size
    /\ CacheKeys(response_cache) = {cache_use[i].key : i \in 1..Len(cache_use)}
    /\ Generating =>
          IF StoredNewKey /\ Len(last.cache) = _cache_max_size
          THEN KeysGone = {last.use[1].key}
          ELSE KeysGone \subseteq {last.key}

\* a full cache took a new key after its oldest entry had been read: the
\* entry stored second left, and the one stored first stayed
ReadEntryOutlivedEviction ==
    /\ StoredNewKey
    /\ Len(last.cache) = _cache_max_size
    /\ KeysGone = {_get_cache_key(StoredQuery(2), context_hash(""))}
    /\ _get_cache_key(StoredQuery(1), context_hash("")) \in CacheKeys(response_cache)

\* the entries the cache held under the key of the last call, before it
EntriesOfKey == {i \in 1..Len(last.cache) : last.cache[i].key = last.key}

\* the uses recorded, before the last call, for its key
UsesOfKey == {i \in 1..Len(last.use) : last.use[i].key = last.key}

\* the last call found an entry older than the time to live under its key
FoundStale == Generating /\ \E i \in EntriesOfKey : ~last.cache[i].fresh

\* the last call returned a cached response
ServedCached == Generating /\ last.response_source = "llm_cached"

\* an entry older than the time to live is removed at the lookup and the
\* completion call is made: the call returns its reply, stored afresh, or
\* the apology of the handler, the key then gone from the cache
StaleRemovedAndAskedAgain ==
    FoundStale =>
        /\ ~ServedCached
        /\ last.llm = "llm_error" =>
              /\ last.response_source = "llm_error"
              /\ last.key \notin CacheKeys(response_cache)
        /\ last.llm # "llm_error" =>
              /\ last.response_source = "llm_gpt4o_mini"
              /\ last.response = Completion(last.history, last.text, last.context)
              /\ \A i \in 1..Len(response_cache) :
                    response_cache[i].key = last.key =>
                        response_cache[i].fresh /\ response_cache[i].response = last.response

\* C29 as stated: a cached response is returned only if it was stored, within
\* the time to live, for the very query and the context of the call; an entry
\* older than the time to live is removed and the completion call made again
CachedOnlyForSameQueryWithinTimeToLive ==
    /\ ServedCached =>
          /\ \E i \in EntriesOfKey :
                last.cache[i].fresh /\ last.cache[i].response = last.response
          /\ \E i \in UsesOfKey :
                last.use[i].query = last.text /\ last.use[i].context = last.context
    /\ StaleRemovedAndAskedAgain

\* C29, amended: a cached response is returned only if it was stored, within
\* the time to live, for the context of the call and for a query that is the
\* query of the call once both are lowercased and stripped; an entry older
\* than the time to live is removed and the completion call made again
CachedOnlyForSameKeyWithinTimeToLive ==
    /\ ServedCached =>
          /\ \E i \in EntriesOfKey :
                last.cache[i].fresh /\ last.cache[i].response = last.response
          /\ \E i \in UsesOfKey :
                /\ str_strip(str_lower(last.use[i].query)) = str_strip(str_lower(last.text))
                /\ last.use[i].context = last.context
    /\ StaleRemovedAndAskedAgain

\* a response stored again after the time to live of its entry had passed was
\* served from the cache, the other entries still past theirs
ServedAfterStoringAgain ==
    /\ ServedCached
    /\ \E i \in UsesOfKey : last.use[i].call_sid \in CacheSessions
    /\ \E i \in 1..Len(last.cache) : ~last.cache[i].fresh

\* C30: the response generate_response returns to a session is the one the
\* query, the session's own history and the retrieved context determine,
\* whatever other sessions said; and a cached response is served only to the
\* session and the history it was generated for
ResponseOwnToSessionAndHistory ==
    /\ (Generating /\ last.response_source \in {"llm_cached", "llm_gpt4o_mini"}) =>
          last.response = Completion(last.history, last.text, last.context)
    /\ ServedCached =>
          \A i \in UsesOfKey :
              last.use[i].call_sid = last.call_sid /\ last.use[i].history = last.history

=============================================================================
